---- MODULE Spec2Model ----
(***************************************************************************)
(* Model of the Rust core of deltaR: delta_merge_execute (merge.rs) and    *)
(* delta_write with its streaming bridge (write.rs).  One call runs at a   *)
(* time (the calls are synchronous, lib.rs block_on); the table engine     *)
(* (deltalake) is modelled at its call sites, with its failures as         *)
(* nondeterministic outcomes.                                              *)
(***************************************************************************)
EXTENDS Integers, Sequences, FiniteSets, TLC

\* ------------------------------------------------------------------ bounds
MaxClauses == 2      \* clause-list elements per merge call, all lists together
MaxBatches == 2      \* items the source stream yields before end-of-stream
MaxVersion == 2      \* calls start only while the table version is below this

\* ------------------------------------------------------- host (R) values
\* An R value: a string, a logical, a list of named entries, or anything else.
Val(t, s, b, l) == [t |-> t, s |-> s, b |-> b, l |-> l]
RStr(s) == Val("str", s, FALSE, <<>>)
RLgl(b) == Val("lgl", "", b, <<>>)
RList(l) == Val("list", "", FALSE, l)
RNum == Val("num", "", FALSE, <<>>)
Entry(k, x) == [k |-> k, x |-> x]

Some(s) == [some |-> TRUE, v |-> s]
None == [some |-> FALSE, v |-> ""]

as_str(x) == IF x.t = "str" THEN Some(x.s) ELSE None
as_bool_or_false(x) == IF x.t = "lgl" THEN x.b ELSE FALSE
is_list_always(x) == TRUE

is_list(x) == x.t = "list"

\* Index of the first entry of list l named key, 0 when there is none.
FirstKey(l, key) ==
  IF \E i \in 1..Len(l) : l[i].k = key
  THEN CHOOSE i \in 1..Len(l) : l[i].k = key /\ \A j \in 1..(i - 1) : l[j].k # key
  ELSE 0

\* A reading of the predicate that takes the last entry of that name.
extract_predicate_last(clause) ==
  IF \E i \in 1..Len(clause) : clause[i].k = "predicate"
  THEN as_str(clause[CHOOSE i \in 1..Len(clause) :
                       clause[i].k = "predicate"
                       /\ \A j \in (i + 1)..Len(clause) : clause[j].k # "predicate"].x)
  ELSE None

extract_predicate(clause) ==
  LET i == FirstKey(clause, "predicate")
  IN  IF i = 0 THEN None ELSE as_str(clause[i].x)

is_update_all(clause) ==
  LET i == FirstKey(clause, "update_all")
  IN  IF i = 0 THEN FALSE ELSE as_bool_or_false(clause[i].x)

is_insert_all(clause) ==
  LET i == FirstKey(clause, "insert_all")
  IN  IF i = 0 THEN FALSE ELSE as_bool_or_false(clause[i].x)

\* A map that keeps the first entry of a column name.
RECURSIVE InsertEntries_first(_, _)
InsertEntries_first(m, l) ==
  IF l = <<>> THEN m
  ELSE LET e == Head(l)
           m2 == IF e.x.t = "str" /\ ~\E p \in m : p.col = e.k
                 THEN m \cup {[col |-> e.k, expr |-> e.x.s]}
                 ELSE m
       IN  InsertEntries_first(m2, Tail(l))

\* HashMap::insert over the entries in list order: the last string-valued
\* entry of a column name is the one kept.
RECURSIVE InsertEntries(_, _)
InsertEntries(m, l) ==
  IF l = <<>> THEN m
  ELSE LET e == Head(l)
           m2 == IF e.x.t = "str"
                 THEN {p \in m : p.col # e.k} \cup {[col |-> e.k, expr |-> e.x.s]}
                 ELSE m
       IN  InsertEntries(m2, Tail(l))

extract_updates(clause) ==
  LET i == FirstKey(clause, "updates")
  IN  IF i = 0 THEN {}
      ELSE IF is_list(clause[i].x) THEN InsertEntries({}, clause[i].x.l) ELSE {}

\* ------------------------------------------------------ clause categories
Cats == { "matched_update", "matched_delete", "not_matched_insert",
          "not_matched_by_source_update", "not_matched_by_source_delete" }

\* The loops over matched_delete_clauses and not_matched_insert_clauses swapped.
CatOrder_swapped == << "matched_update", "not_matched_insert", "matched_delete",
                       "not_matched_by_source_update", "not_matched_by_source_delete" >>

\* The order of the five for-loops of delta_merge_execute.
CatOrder == << "matched_update", "matched_delete", "not_matched_insert",
               "not_matched_by_source_update", "not_matched_by_source_delete" >>
NumCats == Len(CatOrder)

Op(cat, pred, updates) == [cat |-> cat, predicate |-> pred, updates |-> updates]
Compiled(o) == [ok |-> TRUE, op |-> o]
ClauseErr == [ok |-> FALSE, op |-> Op("", None, {})]

add_matched_update_clause(clause) ==
  IF is_update_all(clause) THEN ClauseErr
  ELSE Compiled(Op("matched_update", extract_predicate(clause), extract_updates(clause)))

add_matched_delete_clause(clause) ==
  Compiled(Op("matched_delete", extract_predicate(clause), {}))

add_not_matched_insert_clause(clause) ==
  IF is_insert_all(clause) THEN ClauseErr
  ELSE Compiled(Op("not_matched_insert", extract_predicate(clause), extract_updates(clause)))

add_not_matched_by_source_update_clause(clause) ==
  Compiled(Op("not_matched_by_source_update", extract_predicate(clause),
              extract_updates(clause)))

add_not_matched_by_source_delete_clause(clause) ==
  Compiled(Op("not_matched_by_source_delete", extract_predicate(clause), {}))

\* The helper the loop over the clause list named cat calls.
AddClause(cat, clause) ==
  CASE cat = "matched_update" -> add_matched_update_clause(clause)
    [] cat = "matched_delete" -> add_matched_delete_clause(clause)
    [] cat = "not_matched_insert" -> add_not_matched_insert_clause(clause)
    [] cat = "not_matched_by_source_update" -> add_not_matched_by_source_update_clause(clause)
    [] OTHER -> add_not_matched_by_source_delete_clause(clause)

\* ------------------------------------------------------------ input sets
SeqsUpTo(S, n) == UNION {[1..k -> S] : k \in 0..n}

Schemas == {"int", "long", "ulong"}

\* Clause-list elements a caller may pass.
CondClause == RList(<< Entry("predicate", RStr("x>0")),
                       Entry("updates", RList(<< Entry("a", RStr("e1")) >>)) >>)
PlainClause == RList(<< Entry("updates", RList(<< Entry("a", RStr("e2")) >>)) >>)
UpdateAllClause == RList(<< Entry("update_all", RLgl(TRUE)) >>)
InsertAllClause == RList(<< Entry("insert_all", RLgl(TRUE)) >>)

ClauseSet == { CondClause, PlainClause, UpdateAllClause, InsertAllClause, RNum }

\* The five clause lists of one call, written as one sequence of
\* (category, element) pairs grouped by category.
FlatClauses ==
  { f \in SeqsUpTo((1..NumCats) \X ClauseSet, MaxClauses) :
      \A i \in 1..(Len(f) - 1) : f[i][1] <= f[i + 1][1] }

ArgNames == << "matched_update", "matched_delete", "not_matched_insert",
               "not_matched_by_source_update", "not_matched_by_source_delete" >>

ListOf(f, c) ==
  LET s == SelectSeq(f, LAMBDA p : ArgNames[p[1]] = c)
  IN  [i \in 1..Len(s) |-> s[i][2]]

ClauseLists(f) == [c \in Cats |-> ListOf(f, c)]

\* A source stream: whether the host object is a stream at all, its declared
\* schema, and for each position whether next() yields a batch or an error.
Streams ==
  { [valid |-> TRUE, schema |-> sc, items |-> it] :
      sc \in Schemas, it \in SeqsUpTo(BOOLEAN, MaxBatches) }
  \cup { [valid |-> FALSE, schema |-> "int", items |-> <<>>] }

\* What a reader's next() yields: a batch, an error, or end-of-stream; cast
\* records whether cast_record_batch was applied to it.
Item(kind, i, sc, cast) == [kind |-> kind, id |-> i, schema |-> sc, cast |-> cast]
Batch(i, sc) == Item("batch", i, sc, FALSE)
EndOfStream == Item("end", 0, "int", FALSE)

SaveModes == {"append", "overwrite", "error", "ignore"}
SchemaModes == {"overwrite", "merge"}
ModeInputs == SaveModes \cup {"bogus"}
SchemaModeInputs ==
  {[some |-> FALSE, v |-> ""]} \cup {[some |-> TRUE, v |-> m] : m \in SchemaModes \cup {"bogus"}}
SizeInputs ==
  {[some |-> FALSE, v |-> 0]} \cup {[some |-> TRUE, v |-> n] : n \in {-1, 0, 5}}

\* ------------------------------------------------------------ type trees
MaxDepth == 3        \* nesting depth of the source types that are mapped

\* A source (Arrow) type: its variant, two parameters (precision and scale of
\* a decimal; unit and time-zone flag of a timestamp; unit of a time,
\* duration or interval) and its child fields.  A field is a name, a type
\* and a nullability flag.  A dictionary and a run-end-encoded type have two
\* children: the key (run-end) type and the value type.
AT(k, p, s, ch) == [k |-> k, p |-> p, s |-> s, ch |-> ch]
AField(name, t, nullable) == [name |-> name, ty |-> t, nullable |-> nullable]
APrim(k) == AT(k, 0, 0, << >>)
AList(k, t, nullable) == AT(k, 0, 0, << AField("item", t, nullable) >>)
AStruct(fs) == AT("Struct", 0, 0, fs)
AMapOf(entries) == AT("Map", 0, 0, << AField("entries", entries, FALSE) >>)
AMap(kt, vt, vnull) ==
  AMapOf(AStruct(<< AField("key", kt, FALSE), AField("value", vt, vnull) >>))
ADict(kt, vt) == AT("Dictionary", 0, 0, << AField("", kt, FALSE), AField("", vt, TRUE) >>)
AREE(rt, vt) ==
  AT("RunEndEncoded", 0, 0, << AField("run_ends", rt, FALSE), AField("values", vt, TRUE) >>)

\* A target (kernel) type, in the same shape.
KT(k, p, s, ch) == [k |-> k, p |-> p, s |-> s, ch |-> ch]
KField_nullable(name, t, nullable) ==
  [name |-> name, ty |-> t, nullable |-> TRUE, meta |-> FALSE]

\* StructField::new: name, type, nullability, and no metadata.
KField(name, t, nullable) ==
  [name |-> name, ty |-> t, nullable |-> nullable, meta |-> FALSE]

\* A field of a table's schema, which may carry metadata.
KFieldMeta(name, t, nullable, meta) ==
  [name |-> name, ty |-> t, nullable |-> nullable, meta |-> meta]
KPrim(k) == KT(k, 0, 0, << >>)
KArray(t, contains_null) == KT("array", 0, 0, << KField("element", t, contains_null) >>)
KMap(kt, vt, value_contains_null) ==
  KT("map", 0, 0, << KField("key", kt, FALSE), KField("value", vt, value_contains_null) >>)
KStruct(fs) == KT("struct", 0, 0, fs)

\* Result<KernelDT, TypeConversionError>; the error keeps what its message
\* is made of: the rule that failed and the type it names.
TOk(t) == [ok |-> TRUE, ty |-> t, err |-> [kind |-> "", off |-> APrim("")]]
TErr_fallback(kind, off) == TOk(KPrim("string"))

TErr(kind, off) == [ok |-> FALSE, ty |-> KPrim(""), err |-> [kind |-> kind, off |-> off]]

\* KernelDT::decimal(precision: u8, scale: u8)
decimal(precision, scale) ==
  IF 0 < precision /\ precision <= 38 /\ scale <= precision
  THEN TOk(KT("decimal", precision, scale, << >>))
  ELSE TErr("decimal_invalid", APrim(""))

\* scale as u8
as_u8_keep(n) == n

as_u8(n) == n % 256

\* A decimal built from the source's parameters without the constructor's
\* check.
DecimalOf_unchecked(t) == TOk(KT("decimal", t.p, as_u8(t.s), << >>))

DecimalOf(t) ==
  LET r == decimal(t.p, as_u8(t.s))
  IN  IF r.ok THEN r ELSE TErr("decimal_invalid", t)

\* StructType::try_new: field names must be distinct.
StructType_try_new(fs) ==
  \A i \in 1..Len(fs) : \A j \in 1..Len(fs) : fs[i].name = fs[j].name => i = j

\* The unsigned integers: promoted to the next wider signed type; the 64-bit
\* one has no wider type to go to.
Unsigned_same_width(t) ==
  CASE t.k = "UInt8" -> TOk(KPrim("byte"))
    [] t.k = "UInt16" -> TOk(KPrim("short"))
    [] t.k = "UInt32" -> TOk(KPrim("integer"))
    [] t.k = "UInt64" -> TOk(KPrim("long"))

Unsigned(t) ==
  CASE t.k = "UInt8" -> TOk(KPrim("short"))
    [] t.k = "UInt16" -> TOk(KPrim("integer"))
    [] t.k = "UInt32" -> TOk(KPrim("long"))
    [] t.k = "UInt64" -> TErr("uint64", t)

\* The entries field of a map: a struct whose first two fields are the key
\* and the value.
MapEntriesOk(field) ==
  field.ty.k = "Struct" /\ Len(field.ty.ch) >= 2

ListKinds == {"List", "LargeList", "FixedSizeList", "ListView", "LargeListView"}

RECURSIVE arrow_type_to_kernel(_)
RECURSIVE MapFields(_)

\* fields.iter().map(..).collect::<Result<Vec<_>, _>>(): the mapped fields in
\* order, or the error of the first field that fails.
MapFields(fs) ==
  IF fs = << >> THEN [ok |-> TRUE, fields |-> << >>, err |-> TOk(KPrim("")).err]
  ELSE LET r == arrow_type_to_kernel(Head(fs).ty)
       IN  IF ~r.ok THEN [ok |-> FALSE, fields |-> << >>, err |-> r.err]
           ELSE LET rest == MapFields(Tail(fs))
                IN  IF ~rest.ok THEN rest
                    ELSE [rest EXCEPT !.fields =
                            << KField(Head(fs).name, r.ty, Head(fs).nullable) >> \o rest.fields]

arrow_type_to_kernel(t) ==
  CASE t.k = "Boolean" -> TOk(KPrim("boolean"))
    [] t.k = "Int8" -> TOk(KPrim("byte"))
    [] t.k = "Int16" -> TOk(KPrim("short"))
    [] t.k = "Int32" -> TOk(KPrim("integer"))
    [] t.k = "Int64" -> TOk(KPrim("long"))
    [] t.k \in {"UInt8", "UInt16", "UInt32", "UInt64"} -> Unsigned(t)
    [] t.k = "Float16" -> TOk(KPrim("float"))
    [] t.k = "Float32" -> TOk(KPrim("float"))
    [] t.k = "Float64" -> TOk(KPrim("double"))
    [] t.k \in {"Utf8", "LargeUtf8", "Utf8View"} -> TOk(KPrim("string"))
    [] t.k \in {"Binary", "LargeBinary", "BinaryView", "FixedSizeBinary"} ->
         TOk(KPrim("binary"))
    [] t.k \in {"Date32", "Date64"} -> TOk(KPrim("date"))
    [] t.k = "Timestamp" ->
         IF t.s = 1 THEN TOk(KPrim("timestamp")) ELSE TOk(KPrim("timestamp_ntz"))
    [] t.k \in {"Time32", "Time64"} -> TErr("time", t)
    [] t.k = "Duration" -> TErr("duration", t)
    [] t.k = "Interval" -> TErr("interval", t)
    [] t.k \in {"Decimal32", "Decimal64", "Decimal128"} -> DecimalOf(t)
    [] t.k = "Decimal256" ->
         IF t.p > 38 THEN TErr("decimal_precision", t) ELSE DecimalOf(t)
    [] t.k \in ListKinds ->
         LET field == t.ch[1]
             element_type == arrow_type_to_kernel(field.ty)
         IN  IF ~element_type.ok THEN element_type
             ELSE TOk(KArray(element_type.ty, field.nullable))
    [] t.k = "Map" ->
         LET field == t.ch[1]
             fields == field.ty.ch
         IN  IF MapEntriesOk(field)
             THEN LET key_type == arrow_type_to_kernel(fields[1].ty)
                      value_type == arrow_type_to_kernel(fields[2].ty)
                  IN  IF ~key_type.ok THEN key_type
                      ELSE IF ~value_type.ok THEN value_type
                      ELSE TOk(KMap(key_type.ty, value_type.ty, fields[2].nullable))
             ELSE TErr("map_structure", t)
    [] t.k = "Struct" ->
         LET struct_fields == MapFields(t.ch)
         IN  IF ~struct_fields.ok
             THEN [ok |-> FALSE, ty |-> KPrim(""), err |-> struct_fields.err]
             ELSE IF StructType_try_new(struct_fields.fields)
             THEN TOk(KStruct(struct_fields.fields))
             ELSE TErr("struct", t)
    [] t.k = "Union" -> TErr("union", t)
    [] t.k = "Dictionary" -> arrow_type_to_kernel(t.ch[2].ty)
    [] t.k = "RunEndEncoded" -> arrow_type_to_kernel(t.ch[2].ty)
    [] t.k = "Null" -> TErr("null", t)

\* ---------------------------------------------------- source type inputs
Precisions == {0, 1, 10, 38, 39, 76}
Scales == {-128, -1, 0, 2, 10, 38, 39, 127}

ArrowLeaves ==
  {APrim(k) : k \in {"Boolean", "Int8", "Int16", "Int32", "Int64", "UInt8", "UInt16",
                     "UInt32", "UInt64", "Float16", "Float32", "Float64", "Utf8",
                     "LargeUtf8", "Utf8View", "Binary", "LargeBinary", "BinaryView",
                     "FixedSizeBinary", "Date32", "Date64", "Null"}}
  \cup {AT("Timestamp", u, z, << >>) : u \in 0..3, z \in {0, 1}}
  \cup {AT("Time32", u, 0, << >>) : u \in {0, 1}}
  \cup {AT("Time64", u, 0, << >>) : u \in {2, 3}}
  \cup {AT("Duration", u, 0, << >>) : u \in 0..3}
  \cup {AT("Interval", u, 0, << >>) : u \in 0..2}
  \cup {AT(k, p, s, << >>) : k \in {"Decimal32", "Decimal64", "Decimal128", "Decimal256"},
                             p \in Precisions, s \in Scales}

\* The types that are put inside nested types.
CoreLeaves ==
  {APrim("Utf8"), APrim("Int32"), APrim("UInt64"), APrim("Null"),
   AT("Decimal128", 10, 2, << >>), AT("Decimal128", 0, 0, << >>),
   AStruct(<< AField("a", APrim("Utf8"), TRUE), AField("a", APrim("Int32"), TRUE) >>)}

RECURSIVE Core(_)
Core(d) ==
  IF d = 0 THEN CoreLeaves
  ELSE CoreLeaves
       \cup UNION {{AList("List", x, TRUE), AMap(APrim("Utf8"), x, TRUE),
                    AStruct(<< AField("a", x, TRUE) >>)} : x \in Core(d - 1)}

\* Every one-child nesting of the types of S.
Wrap1(S) ==
  UNION {{AList(k, x, n) : k \in ListKinds, n \in BOOLEAN}
         \cup {AMap(APrim("Utf8"), x, n) : n \in BOOLEAN}
         \cup {AMap(x, APrim("Int32"), FALSE)}
         \cup {AStruct(<< AField("a", x, n) >>) : n \in BOOLEAN}
         \cup {ADict(APrim("Int32"), x), ADict(APrim("UInt64"), x),
               AREE(APrim("Int32"), x)} : x \in S}

EntryFields ==
  {AField(nm, x, n) : nm \in {"key", "value"}, x \in {APrim("Utf8"), APrim("UInt64")},
                      n \in {TRUE}}
StructFields == {AField(nm, x, n) : nm \in {"a", "b"}, x \in CoreLeaves, n \in BOOLEAN}

\* Maps over entries of every shape, structs of no and of two fields, unions.
Multi ==
  {AMapOf(x) : x \in CoreLeaves}
  \cup {AMapOf(AStruct(fs)) : fs \in [1..0 -> EntryFields] \cup [1..1 -> EntryFields]
                                      \cup [1..3 -> EntryFields]}
  \cup {AStruct(fs) : fs \in [1..0 -> StructFields] \cup [1..2 -> StructFields]}
  \cup {AT("Union", 0, 0, << AField("u", x, TRUE) >>) : x \in CoreLeaves}

RECURSIVE ArrowTypes(_)
ArrowTypes(d) ==
  IF d = 0 THEN ArrowLeaves
  ELSE ArrowTypes(d - 1) \cup Wrap1(Core(d - 1)) \cup Multi

MaxPullers == 2      \* execution plans built over one generator

\* The fields of the schemas that calls are made with.
SchemaFields(name) ==
  CASE name = "int" -> << AField("x", APrim("Int32"), TRUE) >>
    [] name = "long" -> << AField("x", APrim("Int64"), TRUE) >>
    [] name = "ulong" -> << AField("x", APrim("UInt64"), TRUE) >>
    [] name = "mixed" -> << AField("a", APrim("Int32"), FALSE), AField("b", APrim("Null"), TRUE),
                            AField("c", AT("Duration", 0, 0, << >>), TRUE) >>

\* The schema argument of delta_create; "invalid" is no Arrow schema.
CreateSchemas == {"int", "long", "ulong", "mixed", "invalid"}

NoType == APrim("")
NoKType == KPrim("")
NoHandle == [open |-> FALSE, version |-> -1, files |-> {}]
NoPuller == [st |-> "none", got |-> << >>, item |-> 0,
             res |-> Item("none", 0, "int", FALSE)]
NoPullers == [p \in 1..MaxPullers |-> NoPuller]
NoOut == [ok |-> FALSE, ty |-> KPrim(""), err |-> [kind |-> "unset", off |-> APrim("")]]

\* ------------------------------------------------------------------ state
VARIABLES
  table,     \* the table at the location: version (-1: none) and schema
  pc,        \* position of the running call
  call,      \* arguments of the running call and the version it started at
  snap,      \* table.state of the handle the call opened
  pos,       \* items pulled from the source stream so far
  batches,   \* source batches the core holds
  builder,   \* clauses folded into the MergeBuilder, in fold order
  ci,        \* fold position: category index and index in its list
  wb,        \* the WriteBuilder and the reader behind its scan plan
  engine,    \* what the engine has received from generate_next_batch
  io,        \* what the call has done so far at the engine boundary
  result,    \* outcome of the call
  handle,    \* the table handle the host holds (DeltaTableInternal)
  ktype,     \* the target type handed to kernel_type_to_arrow
  ty,        \* the source type handed to arrow_type_to_kernel
  out,       \* what the type mapping returned
  lock,      \* holder of the reader's mutex (0: free)
  pullers    \* the execution plans that pull from the shared generator

callvars == << table, pc, call, snap, pos, batches, builder, ci, wb, engine, io, result >>

vars == << table, pc, call, snap, pos, batches, builder, ci, wb, engine, io, result,
          handle, ktype, ty, out, lock, pullers >>

NoTable == [version |-> -1, schema |-> "int"]
NoSnap == [some |-> FALSE, version |-> -1, schema |-> "int"]
NoStream == [valid |-> FALSE, schema |-> "int", items |-> <<>>]
NoIo == [opened |-> FALSE, loaded |-> FALSE, attempts |-> 0]
NoResult == [status |-> "none", kind |-> ""]
NullStr == [some |-> FALSE, v |-> ""]
NullInt == [some |-> FALSE, v |-> 0]
NotNull(x) == [some |-> TRUE, v |-> x]
NoReader == [cast |-> FALSE, schema |-> "int"]
NoWb == [snapshot |-> NoSnap, save_mode |-> "", reader |-> NoReader,
         schema_mode |-> "", target_file_size |-> NullInt]
IdleCall == [fn |-> "none", stream |-> NoStream, clauses |-> ClauseLists(<<>>),
             mode |-> "", schema_mode |-> NullStr, target_file_size |-> NullInt,
             schema |-> "", before |-> -1]

Ok == [status |-> "ok", kind |-> ""]
Err(kind) == [status |-> "err", kind |-> kind]

Init ==
  /\ table = NoTable
  /\ pc = "idle"
  /\ call = IdleCall
  /\ snap = NoSnap
  /\ pos = 0
  /\ batches = <<>>
  /\ builder = <<>>
  /\ ci = [c |-> 1, i |-> 1]
  /\ wb = NoWb
  /\ engine = <<>>
  /\ io = NoIo
  /\ result = NoResult
  /\ handle = NoHandle
  /\ ktype = NoKType
  /\ ty = NoType
  /\ out = NoOut
  /\ lock = 0
  /\ pullers = NoPullers

\* An early return with an error (the ? operator).
Fail(kind) ==
  /\ result' = Err(kind)
  /\ pc' = "done"

\* --------------------------------------------------- delta_merge_execute
MergeCall ==
  /\ pc = "idle"
  /\ table.version < MaxVersion
  /\ \E st \in Streams, f \in FlatClauses :
       call' = [IdleCall EXCEPT !.fn = "merge", !.stream = st,
                                !.clauses = ClauseLists(f), !.before = table.version]
  /\ pc' = "m_reader"
  /\ UNCHANGED << table, snap, pos, batches, builder, ci, wb, engine, io, result >>
  /\ UNCHANGED << handle, ktype, ty, out, lock, pullers >>

\* Variant in which the source is collected right after the reader is made.
MergeReader_drainfirst ==
  /\ pc = "m_reader"
  /\ IF call.stream.valid
     THEN pc' = "m_drain" /\ UNCHANGED result
     ELSE Fail("stream")
  /\ UNCHANGED << table, call, snap, pos, batches, builder, ci, wb, engine, io >>
  /\ UNCHANGED << handle, ktype, ty, out, lock, pullers >>

\* ArrowArrayStreamReader::from_arrow_robj
MergeReader ==
  /\ pc = "m_reader"
  /\ IF call.stream.valid
     THEN pc' = "m_open" /\ UNCHANGED result
     ELSE Fail("stream")
  /\ UNCHANGED << table, call, snap, pos, batches, builder, ci, wb, engine, io >>
  /\ UNCHANGED << handle, ktype, ty, out, lock, pullers >>

\* DeltaTable::try_from_url: the handle carries the latest snapshot when a
\* table exists and no state when the location is uninitialized.
try_from_url ==
  IF table.version >= 0
  THEN [some |-> TRUE, version |-> table.version, schema |-> table.schema]
  ELSE NoSnap

MergeOpen ==
  /\ pc = "m_open"
  /\ io' = [io EXCEPT !.opened = TRUE]
  /\ \/ /\ snap' = try_from_url
        /\ pc' = "m_load"
        /\ UNCHANGED result
     \/ /\ Fail("engine")
        /\ UNCHANGED snap
  /\ UNCHANGED << table, call, pos, batches, builder, ci, wb, engine >>
  /\ UNCHANGED << handle, ktype, ty, out, lock, pullers >>

\* Variant of MergeLoad in which load() accepts an uninitialized location.
MergeLoad_lenient ==
  /\ pc = "m_load"
  /\ io' = [io EXCEPT !.loaded = TRUE]
  /\ snap' = [some |-> TRUE, version |-> table.version, schema |-> table.schema]
  /\ pc' = "m_drain"
  /\ UNCHANGED << table, call, pos, batches, builder, ci, wb, engine, result >>
  /\ UNCHANGED << handle, ktype, ty, out, lock, pullers >>

\* table.load(): fails when there is no table at the location.
MergeLoad ==
  /\ pc = "m_load"
  /\ io' = [io EXCEPT !.loaded = TRUE]
  /\ IF table.version >= 0
     THEN /\ snap' = [some |-> TRUE, version |-> table.version, schema |-> table.schema]
          /\ pc' = "m_drain"
          /\ UNCHANGED result
     ELSE /\ Fail("table")
          /\ UNCHANGED snap
  /\ UNCHANGED << table, call, pos, batches, builder, ci, wb, engine >>
  /\ UNCHANGED << handle, ktype, ty, out, lock, pullers >>

\* One iteration of the while-let loop that collects the source.
MergeDrain ==
  /\ pc = "m_drain"
  /\ IF pos = Len(call.stream.items)
     THEN /\ pc' = "m_builder"
          /\ UNCHANGED << pos, batches, result >>
     ELSE IF call.stream.items[pos + 1]
     THEN /\ batches' = Append(batches, Batch(pos + 1, call.stream.schema))
          /\ pos' = pos + 1
          /\ UNCHANGED << pc, result >>
     ELSE /\ pos' = pos + 1
          /\ Fail("stream")
          /\ UNCHANGED batches
  /\ UNCHANGED << table, call, snap, builder, ci, wb, engine, io >>
  /\ UNCHANGED << handle, ktype, ty, out, lock, pullers >>

\* MemTable, SessionContext, table.state check and MergeBuilder::new.
MergeBuilderNew ==
  /\ pc = "m_builder"
  /\ IF snap.some
     THEN /\ builder' = <<>>
          /\ ci' = [c |-> 1, i |-> 1]
          /\ pc' = "m_fold"
          /\ UNCHANGED result
     ELSE /\ Fail("table")
          /\ UNCHANGED << builder, ci >>
  /\ UNCHANGED << table, call, snap, pos, batches, wb, engine, io >>
  /\ UNCHANGED << handle, ktype, ty, out, lock, pullers >>

\* add_*_clause returned Err and the ? operator propagates it, with the
\* variant where the error is dropped and the loop goes on.
OnClauseError_skip ==
  /\ ci' = [ci EXCEPT !.i = ci.i + 1]
  /\ UNCHANGED << pc, builder, result >>

OnClauseError ==
  /\ Fail("clause")
  /\ UNCHANGED << builder, ci >>

\* The builder's when_* call adds the clause after those already added, with
\* the variant that puts it in front of them.
PushClause_front(o) == builder' = << o >> \o builder

PushClause(o) == builder' = Append(builder, o)

\* One iteration of the five for-loops, taken in source order.  The
\* builder's when_* call may itself reject the clause.
MergeFold ==
  /\ pc = "m_fold"
  /\ IF ci.c > NumCats
     THEN /\ pc' = "m_exec"
          /\ UNCHANGED << builder, ci, result >>
     ELSE IF ci.i > Len(call.clauses[CatOrder[ci.c]])
     THEN /\ ci' = [c |-> ci.c + 1, i |-> 1]
          /\ UNCHANGED << pc, builder, result >>
     ELSE LET e == call.clauses[CatOrder[ci.c]][ci.i]
              r == AddClause(CatOrder[ci.c], e.l)
          IN  IF ~is_list(e)
              THEN /\ ci' = [ci EXCEPT !.i = ci.i + 1]
                   /\ UNCHANGED << pc, builder, result >>
              ELSE IF ~r.ok
              THEN OnClauseError
              ELSE \/ /\ PushClause(r.op)
                      /\ ci' = [ci EXCEPT !.i = ci.i + 1]
                      /\ UNCHANGED << pc, result >>
                   \/ /\ Fail("compile")
                      /\ UNCHANGED << builder, ci >>
  /\ UNCHANGED << table, call, snap, pos, batches, wb, engine, io >>
  /\ UNCHANGED << handle, ktype, ty, out, lock, pullers >>

\* Variant in which a rejected merge is submitted again.
MergeExecute_retry ==
  /\ pc = "m_exec"
  /\ io' = [io EXCEPT !.attempts = io.attempts + 1]
  /\ \/ /\ table' = [table EXCEPT !.version = table.version + 1]
        /\ result' = Ok
        /\ pc' = "done"
     \/ /\ UNCHANGED << table, result, pc >>
  /\ UNCHANGED << call, snap, pos, batches, builder, ci, wb, engine >>
  /\ UNCHANGED << handle, ktype, ty, out, lock, pullers >>

\* merge_builder.await: the engine commits one new version or rejects.
MergeExecute ==
  /\ pc = "m_exec"
  /\ io' = [io EXCEPT !.attempts = io.attempts + 1]
  /\ \/ /\ table' = [table EXCEPT !.version = table.version + 1]
        /\ result' = Ok
        /\ pc' = "done"
     \/ /\ Fail("engine")
        /\ UNCHANGED table
  /\ UNCHANGED << call, snap, pos, batches, builder, ci, wb, engine >>
  /\ UNCHANGED << handle, ktype, ty, out, lock, pullers >>

\* ------------------------------------------------------ streaming bridge
\* next() of the reader made from the host stream.
InputNext(stream, n) ==
  IF n = Len(stream.items) THEN EndOfStream
  ELSE IF stream.items[n + 1] THEN Batch(n + 1, stream.schema)
  ELSE Item("err", n + 1, stream.schema, FALSE)

\* The kernel's cast of one batch to a schema (unsafe cast: narrowing fails).
CastOk(from, to) == from = to \/ << from, to >> \in {<< "int", "long" >>}

cast_record_batch(b, target) ==
  IF CastOk(b.schema, target) THEN Item("batch", b.id, target, TRUE)
  ELSE Item("err", b.id, b.schema, TRUE)

\* A cast reader that ends the stream at an input error.
LazyCastReader_next_stop(it, target_schema) ==
  IF it.kind = "batch" THEN cast_record_batch(it, target_schema) ELSE EndOfStream

\* LazyCastReader::next applied to the item its input yields.
LazyCastReader_next(it, target_schema) ==
  IF it.kind = "batch" THEN cast_record_batch(it, target_schema) ELSE it

\* LazyCastReader::schema
LazyCastReader_schema(reader) == reader.schema

\* Variant that wraps the input whatever the schemas are.
maybe_lazy_cast_reader_always(input_schema, target_schema) ==
  [cast |-> TRUE, schema |-> target_schema]

maybe_lazy_cast_reader(input_schema, target_schema) ==
  IF input_schema # target_schema
  THEN [cast |-> TRUE, schema |-> target_schema]
  ELSE [cast |-> FALSE, schema |-> input_schema]

\* next() of the reader returned by maybe_lazy_cast_reader.
ReaderNext(reader, stream, n) ==
  IF reader.cast THEN LazyCastReader_next(InputNext(stream, n), reader.schema)
  ELSE InputNext(stream, n)

\* Variant that reports a reader error as the end of the stream.
generate_next_batch_eos(it) ==
  IF it.kind = "batch" THEN it ELSE EndOfStream

\* ArrowStreamBatchGenerator::generate_next_batch on what the reader yields:
\* a batch, a DataFusion error, or Ok(None).
generate_next_batch(it) ==
  CASE it.kind = "batch" -> it
    [] it.kind = "err" -> it
    [] OTHER -> EndOfStream

\* ------------------------------------------------------------ delta_write
WriteCall ==
  /\ pc = "idle"
  /\ table.version < MaxVersion
  /\ \E st \in Streams, m \in ModeInputs, sm \in SchemaModeInputs, sz \in SizeInputs :
       call' = [IdleCall EXCEPT !.fn = "write", !.stream = st, !.mode = m,
                                !.schema_mode = sm, !.target_file_size = sz,
                                !.before = table.version]
  /\ pc' = "w_mode"
  /\ UNCHANGED << table, snap, pos, batches, builder, ci, wb, engine, io, result >>
  /\ UNCHANGED << handle, ktype, ty, out, lock, pullers >>

\* A delta_write that hands the save mode on without parsing it.
WriteMode_unparsed ==
  /\ pc = "w_mode"
  /\ pc' = "w_reader"
  /\ UNCHANGED << table, call, snap, pos, batches, builder, ci, wb, engine, io, result >>
  /\ UNCHANGED << handle, ktype, ty, out, lock, pullers >>

\* SaveMode::from_str
WriteMode ==
  /\ pc = "w_mode"
  /\ IF call.mode \in SaveModes
     THEN pc' = "w_reader" /\ UNCHANGED result
     ELSE Fail("mode")
  /\ UNCHANGED << table, call, snap, pos, batches, builder, ci, wb, engine, io >>
  /\ UNCHANGED << handle, ktype, ty, out, lock, pullers >>

\* ArrowArrayStreamReader::from_arrow_robj
WriteReader ==
  /\ pc = "w_reader"
  /\ IF call.stream.valid
     THEN pc' = "w_open" /\ UNCHANGED result
     ELSE Fail("stream")
  /\ UNCHANGED << table, call, snap, pos, batches, builder, ci, wb, engine, io >>
  /\ UNCHANGED << handle, ktype, ty, out, lock, pullers >>

WriteOpen ==
  /\ pc = "w_open"
  /\ io' = [io EXCEPT !.opened = TRUE]
  /\ \/ /\ snap' = try_from_url
        /\ pc' = "w_plan"
        /\ UNCHANGED result
     \/ /\ Fail("engine")
        /\ UNCHANGED snap
  /\ UNCHANGED << table, call, pos, batches, builder, ci, wb, engine >>
  /\ UNCHANGED << handle, ktype, ty, out, lock, pullers >>

\* A builder made without the table's snapshot.
WritePlan_nosnapshot ==
  /\ pc = "w_plan"
  /\ LET batch_schema == call.stream.schema
     IN  wb' = [wb EXCEPT !.snapshot = NoSnap,
                          !.save_mode = call.mode,
                          !.reader = maybe_lazy_cast_reader(call.stream.schema, batch_schema)]
  /\ pc' = "w_options"
  /\ UNCHANGED << table, call, snap, pos, batches, builder, ci, engine, io, result >>
  /\ UNCHANGED << handle, ktype, ty, out, lock, pullers >>

\* WriteBuilder::new, with_save_mode, and the scan plan over
\* to_lazy_table(maybe_lazy_cast_reader(boxed_reader, batch_schema)).
WritePlan ==
  /\ pc = "w_plan"
  /\ LET batch_schema == call.stream.schema
     IN  wb' = [wb EXCEPT !.snapshot = snap,
                          !.save_mode = call.mode,
                          !.reader = maybe_lazy_cast_reader(call.stream.schema, batch_schema)]
  /\ pc' = "w_options"
  /\ UNCHANGED << table, call, snap, pos, batches, builder, ci, engine, io, result >>
  /\ UNCHANGED << handle, ktype, ty, out, lock, pullers >>

\* The target file size the builder is given: the argument when it is there
\* and above zero, with the variant that hands on whatever was given.
TargetFileSize_any(size) == size

TargetFileSize(size) == IF size.some /\ size.v > 0 THEN NotNull(size.v) ELSE NullInt

\* Schema mode and target file size.
WriteOptions ==
  /\ pc = "w_options"
  /\ IF call.schema_mode.some /\ call.schema_mode.v \notin SchemaModes
     THEN /\ Fail("mode")
          /\ UNCHANGED wb
     ELSE /\ wb' = [wb EXCEPT
                      !.schema_mode = IF call.schema_mode.some THEN call.schema_mode.v ELSE "",
                      !.target_file_size = TargetFileSize(call.target_file_size)]
          /\ pc' = "w_exec"
          /\ UNCHANGED result
  /\ UNCHANGED << table, call, snap, pos, batches, builder, ci, engine, io >>
  /\ UNCHANGED << handle, ktype, ty, out, lock, pullers >>

\* write_builder.await, first part: the engine's save-mode preconditions.
WriteExecute ==
  /\ pc = "w_exec"
  /\ io' = [io EXCEPT !.attempts = io.attempts + 1]
  /\ IF wb.snapshot.some /\ wb.save_mode = "error"
     THEN Fail("engine")
     ELSE IF wb.snapshot.some /\ wb.save_mode = "ignore"
     THEN result' = Ok /\ pc' = "done"
     ELSE pc' = "w_pull" /\ UNCHANGED result
  /\ UNCHANGED << table, call, snap, pos, batches, builder, ci, wb, engine >>
  /\ UNCHANGED << handle, ktype, ty, out, lock, pullers >>

\* The engine calls generate_next_batch: the core takes one item from the
\* reader under the mutex.
WritePull ==
  /\ pc = "w_pull"
  /\ pos' = IF pos = Len(call.stream.items) THEN pos ELSE pos + 1
  /\ LET it == generate_next_batch(ReaderNext(wb.reader, call.stream, pos))
     IN  CASE it.kind = "batch" ->
                /\ batches' = Append(batches, it)
                /\ pc' = "w_deliver"
                /\ UNCHANGED << engine, result >>
           [] it.kind = "err" ->
                /\ engine' = Append(engine, it)
                /\ Fail("stream")
                /\ UNCHANGED batches
           [] OTHER ->
                /\ engine' = Append(engine, it)
                /\ pc' = "w_commit"
                /\ UNCHANGED << batches, result >>
  /\ UNCHANGED << table, call, snap, builder, ci, wb, io >>
  /\ UNCHANGED << handle, ktype, ty, out, lock, pullers >>

\* Variant of WriteDeliver in which the core keeps the batch it handed over.
WriteDeliver_keep ==
  /\ pc = "w_deliver"
  /\ engine' = Append(engine, Head(batches))
  /\ pc' = "w_pull"
  /\ UNCHANGED << table, call, snap, pos, batches, builder, ci, wb, io, result >>
  /\ UNCHANGED << handle, ktype, ty, out, lock, pullers >>

\* generate_next_batch returns: the batch moves to the engine.
WriteDeliver ==
  /\ pc = "w_deliver"
  /\ engine' = Append(engine, Head(batches))
  /\ batches' = Tail(batches)
  /\ pc' = "w_pull"
  /\ UNCHANGED << table, call, snap, pos, builder, ci, wb, io, result >>
  /\ UNCHANGED << handle, ktype, ty, out, lock, pullers >>

\* write_builder.await, last part: the engine commits one version or rejects.
WriteCommit ==
  /\ pc = "w_commit"
  /\ \/ /\ table' = [version |-> table.version + 1,
                      schema |-> IF ~wb.snapshot.some \/ wb.schema_mode = "overwrite"
                                 THEN wb.reader.schema ELSE table.schema]
        /\ result' = Ok
        /\ pc' = "done"
     \/ /\ Fail("engine")
        /\ UNCHANGED table
  /\ UNCHANGED << call, snap, pos, batches, builder, ci, wb, engine, io >>
  /\ UNCHANGED << handle, ktype, ty, out, lock, pullers >>

\* The call has returned; the next call starts from a clean slate.
\* ----------------------------------------------------------- delta_create
CreateCall ==
  /\ pc = "idle"
  /\ \E sc \in CreateSchemas :
       call' = [IdleCall EXCEPT !.fn = "create", !.schema = sc, !.before = table.version]
  /\ pc' = "c_schema"
  /\ UNCHANGED << table, snap, pos, batches, builder, ci, wb, engine, io, result >>
  /\ UNCHANGED << handle, ktype, ty, out, lock, pullers >>

\* ArrowSchema::from_arrow_robj
CreateSchema ==
  /\ pc = "c_schema"
  /\ IF call.schema # "invalid"
     THEN pc' = "c_map" /\ UNCHANGED result
     ELSE Fail("schema")
  /\ UNCHANGED << table, call, snap, pos, batches, builder, ci, wb, engine, io >>
  /\ UNCHANGED << handle, ktype, ty, out, lock, pullers >>

\* Result<Vec<StructField>, TypeConversionError>, the columns held as the
\* fields of a struct.
Columns(r) ==
  IF r.ok THEN TOk(KStruct(r.fields)) ELSE [ok |-> FALSE, ty |-> KPrim(""), err |-> r.err]

\* A mapping of the columns that goes on to the create request whatever the
\* fields are.
CreateMap_lenient ==
  /\ pc = "c_map"
  /\ out' = Columns(MapFields(SchemaFields(call.schema)))
  /\ pc' = "c_exec"
  /\ UNCHANGED << table, call, snap, pos, batches, builder, ci, wb, engine, io, result >>
  /\ UNCHANGED << handle, ktype, ty, lock, pullers >>

\* The columns: every field of the schema through arrow_type_to_kernel, `?`
\* on the collected result.
CreateMap ==
  /\ pc = "c_map"
  /\ out' = Columns(MapFields(SchemaFields(call.schema)))
  /\ IF out'.ok
     THEN pc' = "c_exec" /\ UNCHANGED result
     ELSE Fail("type")
  /\ UNCHANGED << table, call, snap, pos, batches, builder, ci, wb, engine, io >>
  /\ UNCHANGED << handle, ktype, ty, lock, pullers >>

\* create_builder.await: the engine creates version 0 where no table is, and
\* fails where one is; it may fail for reasons of its own.
CreateExecute ==
  /\ pc = "c_exec"
  /\ io' = [io EXCEPT !.attempts = @ + 1]
  /\ \/ /\ table.version < 0
        /\ table' = [version |-> 0, schema |-> call.schema]
        /\ result' = Ok
        /\ pc' = "done"
     \/ /\ Fail("engine")
        /\ UNCHANGED table
  /\ UNCHANGED << call, snap, pos, batches, builder, ci, wb, engine >>
  /\ UNCHANGED << handle, ktype, ty, out, lock, pullers >>

Return ==
  /\ pc = "done"
  /\ pc' = "idle"
  /\ call' = IdleCall
  /\ snap' = NoSnap
  /\ pos' = 0
  /\ batches' = <<>>
  /\ builder' = <<>>
  /\ ci' = [c |-> 1, i |-> 1]
  /\ wb' = NoWb
  /\ engine' = <<>>
  /\ io' = NoIo
  /\ result' = NoResult
  /\ UNCHANGED table
  /\ out' = NoOut
  /\ UNCHANGED << handle, ktype, ty, lock, pullers >>

Next ==
  \/ MergeCall
  \/ MergeReader
  \/ MergeOpen
  \/ MergeLoad
  \/ MergeDrain
  \/ MergeBuilderNew
  \/ MergeFold
  \/ MergeExecute
  \/ WriteCall
  \/ WriteMode
  \/ WriteReader
  \/ WriteOpen
  \/ WritePlan
  \/ WriteOptions
  \/ WriteExecute
  \/ WritePull
  \/ WriteDeliver
  \/ WriteCommit
  \/ CreateCall
  \/ CreateSchema
  \/ CreateMap
  \/ CreateExecute
  \/ Return

Spec == Init /\ [][Next]_vars

\* ------------------------------------------------ the type mapping alone
\* arrow_type_to_kernel applied to every source type of the bounded set.
InitTypes ==
  /\ table = NoTable
  /\ pc = "idle"
  /\ call = IdleCall
  /\ snap = NoSnap
  /\ pos = 0
  /\ batches = <<>>
  /\ builder = <<>>
  /\ ci = [c |-> 1, i |-> 1]
  /\ wb = NoWb
  /\ engine = <<>>
  /\ io = NoIo
  /\ result = NoResult
  /\ handle = NoHandle
  /\ ktype = NoKType
  /\ ty \in ArrowTypes(MaxDepth)
  /\ out = NoOut
  /\ lock = 0
  /\ pullers = NoPullers

MapType ==
  /\ ty # NoType
  /\ out = NoOut
  /\ out' = arrow_type_to_kernel(ty)
  /\ UNCHANGED << callvars, handle, ktype, ty, lock, pullers >>

NextTypes == MapType

SpecTypes == InitTypes /\ [][NextTypes]_vars

\* ------------------------------------------------- kernel_type_to_arrow
\* scale() as i8
as_i8(n) == IF n % 256 >= 128 THEN (n % 256) - 256 ELSE n % 256

RECURSIVE kernel_type_to_arrow(_)

\* A variant that makes every field nullable.
kernel_field_to_arrow_nullable(field) ==
  AField(field.name, kernel_type_to_arrow(field.ty), TRUE)

kernel_field_to_arrow(field) ==
  AField(field.name, kernel_type_to_arrow(field.ty), field.nullable)

kernel_type_to_arrow(k) ==
  CASE k.k = "string" -> APrim("Utf8")
    [] k.k = "long" -> APrim("Int64")
    [] k.k = "integer" -> APrim("Int32")
    [] k.k = "short" -> APrim("Int16")
    [] k.k = "byte" -> APrim("Int8")
    [] k.k = "float" -> APrim("Float32")
    [] k.k = "double" -> APrim("Float64")
    [] k.k = "boolean" -> APrim("Boolean")
    [] k.k = "binary" -> APrim("Binary")
    [] k.k = "date" -> APrim("Date32")
    [] k.k = "timestamp" -> AT("Timestamp", 2, 1, << >>)
    [] k.k = "timestamp_ntz" -> AT("Timestamp", 2, 0, << >>)
    [] k.k = "decimal" -> AT("Decimal128", k.p, as_i8(k.s), << >>)
    [] k.k = "array" ->
         AList("List", kernel_type_to_arrow(k.ch[1].ty), k.ch[1].nullable)
    [] k.k = "map" ->
         AMap(kernel_type_to_arrow(k.ch[1].ty), kernel_type_to_arrow(k.ch[2].ty),
              k.ch[2].nullable)
    [] k.k = "struct" ->
         AStruct([i \in 1..Len(k.ch) |-> kernel_field_to_arrow(k.ch[i])])
    [] k.k = "variant" -> APrim("Utf8")

\* The target types the conversion is applied to: the types of a table's
\* schema, whose decimals and structs are well formed.
KernelLeaves ==
  {KPrim(k) : k \in {"string", "long", "integer", "short", "byte", "float", "double",
                     "boolean", "binary", "date", "timestamp", "timestamp_ntz", "variant"}}
  \cup {x \in {KT("decimal", p, s, << >>) : p \in {1, 10, 38}, s \in {0, 1, 2, 10, 38}} :
          x.s <= x.p}

KernelCoreLeaves ==
  {KPrim("string"), KPrim("integer"), KT("decimal", 10, 2, << >>), KPrim("variant")}

RECURSIVE KernelCore(_)
KernelCore(d) ==
  IF d = 0 THEN KernelCoreLeaves
  ELSE KernelCoreLeaves
       \cup UNION {{KArray(x, TRUE), KMap(KPrim("string"), x, TRUE),
                    KStruct(<< KFieldMeta("a", x, TRUE, FALSE) >>)} : x \in KernelCore(d - 1)}

KernelWrap(S) ==
  UNION {{KArray(x, n) : n \in BOOLEAN}
         \cup {KMap(KPrim("string"), x, n) : n \in BOOLEAN}
         \cup {KMap(x, KPrim("integer"), FALSE)}
         \cup {KStruct(<< KFieldMeta("a", x, n, m) >>) : n \in BOOLEAN, m \in BOOLEAN}
         \cup {KStruct(<< KFieldMeta(nm[1], x, n, FALSE), KFieldMeta(nm[2], y, FALSE, FALSE) >>) :
                 nm \in {<< "a", "b" >>, << "b", "a" >>}, n \in BOOLEAN,
                 y \in KernelCoreLeaves} : x \in S}
  \cup {KStruct(<< >>)}

RECURSIVE KernelTypes(_)
KernelTypes(d) ==
  IF d = 0 THEN KernelLeaves
  ELSE KernelTypes(d - 1) \cup KernelWrap(KernelCore(d - 1))

InitRound ==
  /\ table = NoTable
  /\ pc = "idle"
  /\ call = IdleCall
  /\ snap = NoSnap
  /\ pos = 0
  /\ batches = <<>>
  /\ builder = <<>>
  /\ ci = [c |-> 1, i |-> 1]
  /\ wb = NoWb
  /\ engine = <<>>
  /\ io = NoIo
  /\ result = NoResult
  /\ handle = NoHandle
  /\ ktype \in KernelTypes(MaxDepth)
  /\ ty = NoType
  /\ out = NoOut
  /\ lock = 0
  /\ pullers = NoPullers

ToArrow ==
  /\ ty = NoType
  /\ ty' = kernel_type_to_arrow(ktype)
  /\ UNCHANGED << callvars, handle, ktype, out, lock, pullers >>

NextRound ==
  \/ ToArrow
  \/ MapType

SpecRound == InitRound /\ [][NextRound]_vars

\* ------------------------------------------- pulling from the generator
\* The plans that scan() builds over one LazyTableProvider share its one
\* ArrowStreamBatchGenerator.  Each plan is pulled by a task of its own; a
\* pull is generate_next_batch: lock the reader's mutex, call next() on the
\* reader (which looks at its cursor and then moves it), unlock on return.
InitPull ==
  /\ table = NoTable
  /\ pc = "w_pull"
  /\ \E st \in {x \in Streams : x.valid} :
       /\ call = [IdleCall EXCEPT !.fn = "write", !.stream = st, !.mode = "append"]
       /\ wb = [NoWb EXCEPT !.save_mode = "append",
                            !.reader = maybe_lazy_cast_reader(st.schema, st.schema)]
  /\ snap = NoSnap
  /\ pos = 0
  /\ batches = <<>>
  /\ builder = <<>>
  /\ ci = [c |-> 1, i |-> 1]
  /\ engine = <<>>
  /\ io = [NoIo EXCEPT !.opened = TRUE, !.attempts = 1]
  /\ result = NoResult
  /\ handle = NoHandle
  /\ ktype = NoKType
  /\ ty = NoType
  /\ out = NoOut
  /\ lock = 0
  /\ pullers = NoPullers

\* LazyTableProvider::scan: a new plan over the same generators.
Scan(p) ==
  /\ pullers[p].st = "none"
  /\ pullers' = [pullers EXCEPT ![p].st = "idle"]
  /\ UNCHANGED << callvars, handle, ktype, ty, out, lock >>

\* A pull that goes to the reader without taking the mutex.
Acquire_nolock(p) ==
  /\ pullers[p].st = "idle"
  /\ lock' = p
  /\ pullers' = [pullers EXCEPT ![p].st = "locked"]
  /\ UNCHANGED << callvars, handle, ktype, ty, out >>

\* self.array_stream.reader.lock()
Acquire(p) ==
  /\ pullers[p].st = "idle"
  /\ lock = 0
  /\ lock' = p
  /\ pullers' = [pullers EXCEPT ![p].st = "locked"]
  /\ UNCHANGED << callvars, handle, ktype, ty, out >>

\* stream_reader.next(), first half: the reader looks at its cursor.
Read(p) ==
  /\ pullers[p].st = "locked"
  /\ pullers' = [pullers EXCEPT ![p].st = "read", ![p].item = pos]
  /\ UNCHANGED << callvars, handle, ktype, ty, out, lock >>

\* stream_reader.next(), second half: the reader yields the item after the
\* cursor it saw and moves the cursor past it; the match wraps the item.
Advance(p) ==
  /\ pullers[p].st = "read"
  /\ pos' = IF pullers[p].item = Len(call.stream.items)
            THEN pullers[p].item ELSE pullers[p].item + 1
  /\ pullers' = [pullers EXCEPT
       ![p].st = "ret",
       ![p].res = generate_next_batch(ReaderNext(wb.reader, call.stream, pullers[p].item))]
  /\ UNCHANGED << table, pc, call, snap, batches, builder, ci, wb, engine, io, result >>
  /\ UNCHANGED << handle, ktype, ty, out, lock >>

\* generate_next_batch returns: the guard is dropped and the plan gets the
\* batch, the error (and stops) or end-of-stream (and is finished).
Release(p) ==
  /\ pullers[p].st = "ret"
  /\ lock' = IF lock = p THEN 0 ELSE lock
  /\ pullers' = [pullers EXCEPT
       ![p].got = Append(@, pullers[p].res),
       ![p].st = CASE pullers[p].res.kind = "batch" -> "idle"
                   [] pullers[p].res.kind = "err" -> "failed"
                   [] OTHER -> "end"]
  /\ UNCHANGED << callvars, handle, ktype, ty, out >>

NextPull ==
  \E p \in 1..MaxPullers :
    \/ Scan(p)
    \/ Acquire(p)
    \/ Read(p)
    \/ Advance(p)
    \/ Release(p)

SpecPull == InitPull /\ [][NextPull]_vars

\* ------------------------------------------- compiling the clause lists
MaxEntries == 2      \* entries of one clause's column mapping

\* The clause loops and the await of delta_merge_execute, started where the
\* table is loaded and the source is collected, over clauses of every make:
\* predicates that are absent, a string, no string, or given twice; column
\* mappings with repeated names and with values that are no strings.
UpdateEntries == {Entry(c, v) : c \in {"a", "b"}, v \in {RStr("e1"), RStr("e2"), RNum}}
UpdatesValues == {RList(l) : l \in SeqsUpTo(UpdateEntries, MaxEntries)} \cup {RNum}
PredicateEntries ==
  { << >>,
    << Entry("predicate", RStr("x>0")) >>,
    << Entry("predicate", RNum) >>,
    << Entry("predicate", RNum), Entry("predicate", RStr("x>0")) >>,
    << Entry("predicate", RStr("x>0")), Entry("predicate", RNum) >> }
RichClauses ==
  {RList(p \o u) : p \in PredicateEntries,
                   u \in {<< >>} \cup {<< Entry("updates", v) >> : v \in UpdatesValues}}
  \cup {RNum}
OtherClauses == {CondClause, PlainClause, UpdateAllClause, RNum}

InitClauses ==
  /\ table = [version |-> 0, schema |-> "int"]
  /\ pc = "m_fold"
  /\ \E cat \in Cats, e \in RichClauses, f \in OtherClauses :
       \E l \in {<< e >>, << e, f >>, << f, e >>} :
         call = [IdleCall EXCEPT !.fn = "merge",
                                 !.stream = [valid |-> TRUE, schema |-> "int", items |-> <<>>],
                                 !.clauses = [c \in Cats |-> IF c = cat THEN l ELSE <<>>],
                                 !.before = 0]
  /\ snap = [some |-> TRUE, version |-> 0, schema |-> "int"]
  /\ pos = 0
  /\ batches = <<>>
  /\ builder = <<>>
  /\ ci = [c |-> 1, i |-> 1]
  /\ wb = NoWb
  /\ engine = <<>>
  /\ io = [NoIo EXCEPT !.opened = TRUE, !.loaded = TRUE]
  /\ result = NoResult
  /\ handle = NoHandle
  /\ ktype = NoKType
  /\ ty = NoType
  /\ out = NoOut
  /\ lock = 0
  /\ pullers = NoPullers

NextClauses ==
  \/ MergeFold
  \/ MergeExecute

SpecClauses == InitClauses /\ [][NextClauses]_vars

\* ------------------------------------------------------- the cast reader
\* A LazyCastReader over a source stream, with next() called until the end
\* of the stream has been reported twice.  call.schema is the target schema,
\* pos the cursor of the input reader, engine what next() has returned.
InitCast ==
  /\ table = NoTable
  /\ pc = "c_make"
  /\ \E st \in {x \in Streams : x.valid}, target \in Schemas :
       call = [IdleCall EXCEPT !.fn = "cast", !.stream = st, !.schema = target]
  /\ snap = NoSnap
  /\ pos = 0
  /\ batches = <<>>
  /\ builder = <<>>
  /\ ci = [c |-> 1, i |-> 1]
  /\ wb = NoWb
  /\ engine = <<>>
  /\ io = NoIo
  /\ result = NoResult
  /\ handle = NoHandle
  /\ ktype = NoKType
  /\ ty = NoType
  /\ out = NoOut
  /\ lock = 0
  /\ pullers = NoPullers

\* LazyCastReader { input, target_schema }
CastMake ==
  /\ pc = "c_make"
  /\ wb' = [wb EXCEPT !.reader = [cast |-> TRUE, schema |-> call.schema]]
  /\ pc' = "c_next"
  /\ UNCHANGED << table, call, snap, pos, batches, builder, ci, engine, io, result >>
  /\ UNCHANGED << handle, ktype, ty, out, lock, pullers >>

\* One call of LazyCastReader::next: self.input.next(), then the match.
CastNext ==
  /\ pc = "c_next"
  /\ Len(engine) < Len(call.stream.items) + 2
  /\ pos' = IF pos = Len(call.stream.items) THEN pos ELSE pos + 1
  /\ engine' = Append(engine,
                      LazyCastReader_next(InputNext(call.stream, pos), wb.reader.schema))
  /\ UNCHANGED << table, pc, call, snap, batches, builder, ci, wb, io, result >>
  /\ UNCHANGED << handle, ktype, ty, out, lock, pullers >>

NextCast == CastMake \/ CastNext

SpecCast == InitCast /\ [][NextCast]_vars

\* ----------------------------------------------------- the table handle
MaxFiles == 2        \* data files a snapshot may hold

\* The snapshot of the table at the location, here with its active files,
\* and the handle delta_table_open gives the host.  The handle holds the
\* snapshot it was loaded with.
FileIds == 1..MaxFiles

InitHandle ==
  /\ table \in {[version |-> v, schema |-> "int", files |-> f] :
                  v \in 0..MaxVersion, f \in SUBSET FileIds}
               \cup {[version |-> -1, schema |-> "int", files |-> {}]}
  /\ pc = "idle"
  /\ call = IdleCall
  /\ snap = NoSnap
  /\ pos = 0
  /\ batches = <<>>
  /\ builder = <<>>
  /\ ci = [c |-> 1, i |-> 1]
  /\ wb = NoWb
  /\ engine = <<>>
  /\ io = NoIo
  /\ result = NoResult
  /\ handle = NoHandle
  /\ ktype = NoKType
  /\ ty = NoType
  /\ out = NoOut
  /\ lock = 0
  /\ pullers = NoPullers

\* self.inner.version().unwrap_or(-1)
version(h) == IF h.open THEN h.version ELSE -1

\* self.inner.get_file_uris() collected
get_files(h) == h.files

\* self.inner.get_file_uris() counted
num_files(h) == Cardinality(h.files)

OpenCall ==
  /\ pc = "idle"
  /\ call' = [IdleCall EXCEPT !.fn = "open", !.before = table.version]
  /\ pc' = "o_open"
  /\ UNCHANGED << table, snap, pos, batches, builder, ci, wb, engine, io, result >>
  /\ UNCHANGED << handle, ktype, ty, out, lock, pullers >>

\* delta_table_open: try_from_url, then load(), then the handle.
Open ==
  /\ pc = "o_open"
  /\ io' = [io EXCEPT !.opened = TRUE, !.loaded = TRUE]
  /\ \/ /\ table.version >= 0
        /\ handle' = [open |-> TRUE, version |-> table.version, files |-> table.files]
        /\ result' = Ok
        /\ pc' = "done"
     \/ /\ table.version < 0
        /\ Fail("table")
        /\ UNCHANGED handle
     \/ /\ Fail("engine")
        /\ UNCHANGED handle
  /\ UNCHANGED << table, call, snap, pos, batches, builder, ci, wb, engine >>
  /\ UNCHANGED << ktype, ty, out, lock, pullers >>

CompactCall ==
  /\ pc = "idle"
  /\ handle.open
  /\ call' = [IdleCall EXCEPT !.fn = "compact", !.before = table.version]
  /\ pc' = "k_exec"
  /\ UNCHANGED << table, snap, pos, batches, builder, ci, wb, engine, io, result >>
  /\ UNCHANGED << handle, ktype, ty, out, lock, pullers >>

\* What the engine's optimize does at the location: nothing, or a commit
\* that replaces the active files by no more files than there were.
Optimized ==
  \/ UNCHANGED table
  \/ /\ table.version < MaxVersion
     /\ \E f \in SUBSET FileIds :
          /\ f # table.files
          /\ f # {}
          /\ Cardinality(f) <= Cardinality(table.files)
          /\ table' = [table EXCEPT !.version = @ + 1, !.files = f]

\* A compact that keeps the table the engine returns in the handle.
CompactExecute_keep ==
  /\ pc = "k_exec"
  /\ io' = [io EXCEPT !.attempts = @ + 1]
  /\ \/ /\ Optimized
        /\ handle' = [open |-> TRUE, version |-> table'.version, files |-> table'.files]
        /\ result' = Ok
        /\ pc' = "done"
     \/ /\ Fail("engine")
        /\ UNCHANGED << table, handle >>
  /\ UNCHANGED << call, snap, pos, batches, builder, ci, wb, engine >>
  /\ UNCHANGED << ktype, ty, out, lock, pullers >>

\* compact: self.inner.clone().optimize() awaited; the returned table is
\* dropped and the metrics are returned.
CompactExecute ==
  /\ pc = "k_exec"
  /\ io' = [io EXCEPT !.attempts = @ + 1]
  /\ \/ /\ Optimized
        /\ result' = Ok
        /\ pc' = "done"
     \/ /\ Fail("engine")
        /\ UNCHANGED table
  /\ UNCHANGED << call, snap, pos, batches, builder, ci, wb, engine >>
  /\ UNCHANGED << handle, ktype, ty, out, lock, pullers >>

VacuumCall ==
  /\ pc = "idle"
  /\ handle.open
  /\ \E dry_run \in BOOLEAN :
       call' = [IdleCall EXCEPT !.fn = "vacuum", !.before = table.version,
                                !.mode = IF dry_run THEN "dry_run" ELSE ""]
  /\ pc' = "v_exec"
  /\ UNCHANGED << table, snap, pos, batches, builder, ci, wb, engine, io, result >>
  /\ UNCHANGED << handle, ktype, ty, out, lock, pullers >>

\* vacuum: self.inner.clone().vacuum() awaited; the returned table is
\* dropped and the deleted files are returned.  The engine deletes files no
\* snapshot needs and, unless it is a dry run, may record the vacuum in the
\* log.
VacuumExecute ==
  /\ pc = "v_exec"
  /\ io' = [io EXCEPT !.attempts = @ + 1]
  /\ \/ /\ UNCHANGED table
        /\ result' = Ok
        /\ pc' = "done"
     \/ /\ call.mode # "dry_run"
        /\ table.version < MaxVersion
        /\ table' = [table EXCEPT !.version = @ + 1]
        /\ result' = Ok
        /\ pc' = "done"
     \/ /\ Fail("engine")
        /\ UNCHANGED table
  /\ UNCHANGED << call, snap, pos, batches, builder, ci, wb, engine >>
  /\ UNCHANGED << handle, ktype, ty, out, lock, pullers >>

\* A write or merge call that commits between two calls on the handle.
Commit ==
  /\ pc = "idle"
  /\ table.version >= 0
  /\ table.version < MaxVersion
  /\ \E f \in SUBSET FileIds :
       table' = [table EXCEPT !.version = @ + 1, !.files = f]
  /\ UNCHANGED << pc, call, snap, pos, batches, builder, ci, wb, engine, io, result >>
  /\ UNCHANGED << handle, ktype, ty, out, lock, pullers >>

NextHandle ==
  \/ OpenCall
  \/ Open
  \/ CompactCall
  \/ CompactExecute
  \/ VacuumCall
  \/ VacuumExecute
  \/ Commit
  \/ Return

SpecHandle == InitHandle /\ [][NextHandle]_vars

\* ------------------------------------------------ engine row evaluation
\* The engine evaluates clause predicates per row; rows are sampled by x.
Rows == {-1, 5}

PredHolds(p, x) == IF p = "x>0" THEN x > 0 ELSE FALSE

Applies(o, x) == ~o.predicate.some \/ PredHolds(o.predicate.v, x)

OpsOf(b, cat) == SelectSeq(b, LAMBDA o : o.cat = cat)

\* Index of the clause the engine applies to row x: the first that applies.
FirstMatch(ops, x) ==
  IF \E i \in 1..Len(ops) : Applies(ops[i], x)
  THEN CHOOSE i \in 1..Len(ops) :
         Applies(ops[i], x) /\ \A j \in 1..(i - 1) : ~Applies(ops[j], x)
  ELSE 0

\* ------------------------------------------------------------ properties
InMerge == call.fn = "merge"
InWrite == call.fn = "write"

\* The clauses of a caller's list: its elements that are lists, in order.
ListElems(l) == SelectSeq(l, LAMBDA e : is_list(e))

\* What the caller wrote in a clause, read off the clause itself.
CallerPredicate(e) ==
  IF \E i \in 1..Len(e.l) : e.l[i].k = "predicate" /\ e.l[i].x.t = "str"
                              /\ \A j \in 1..(i - 1) : e.l[j].k # "predicate"
  THEN LET i == CHOOSE i \in 1..Len(e.l) :
                  e.l[i].k = "predicate" /\ \A j \in 1..(i - 1) : e.l[j].k # "predicate"
       IN  Some(e.l[i].x.s)
  ELSE None

CallerHolds(e, x) == ~CallerPredicate(e).some \/ PredHolds(CallerPredicate(e).v, x)

HasFlag(e, key) == \E i \in 1..Len(e.l) : e.l[i].k = key /\ e.l[i].x = RLgl(TRUE)

\* Some clause of the call makes its add_*_clause helper return an error.
CompileFails ==
  \/ \E e \in {call.clauses["matched_update"][i] :
                 i \in 1..Len(call.clauses["matched_update"])} :
       is_list(e) /\ HasFlag(e, "update_all")
  \/ \E e \in {call.clauses["not_matched_insert"][i] :
                 i \in 1..Len(call.clauses["not_matched_insert"])} :
       is_list(e) /\ HasFlag(e, "insert_all")

\* Some clause of the call, in any list, carries update_all or insert_all.
HasAllFlag ==
  \E cat \in Cats : \E i \in 1..Len(call.clauses[cat]) :
    LET e == call.clauses[cat][i]
    IN  is_list(e) /\ (HasFlag(e, "update_all") \/ HasFlag(e, "insert_all"))

\* An error item of the source stream has been pulled.
ErrPulled == \E i \in 1..pos : ~call.stream.items[i]

\* C1: a merge one of whose clauses fails to compile is never submitted to
\* the engine: no commit is attempted and the table version stays what it
\* was when the call started.
C1_NoCommitOnCompileError ==
  (InMerge /\ (CompileFails \/ result.kind \in {"clause", "compile"}))
    => (io.attempts = 0 /\ pc # "m_exec" /\ table.version = call.before)

\* C1 witness: the third category fails after earlier categories compiled.
C1_Witness ==
  /\ InMerge /\ pc = "done" /\ result.kind = "clause"
  /\ ci.c = 3 /\ builder # << >>

\* C2 (as claimed): a clause carrying update_all or insert_all, in whichever
\* of the five lists, keeps the merge from being submitted.
C2_AllFlagAlwaysFails ==
  (InMerge /\ HasAllFlag) => pc # "m_exec"

\* C3 (as claimed): when the clause error is returned the table has not been
\* opened or loaded, the source has not been read and nothing was written.
C3_ClauseErrorBeforeIO ==
  (InMerge /\ result.kind = "clause")
    => (~io.opened /\ ~io.loaded /\ pos = 0 /\ io.attempts = 0)

\* C4: within a category the engine receives the caller's clauses in list
\* order, so the clause applied to a row is the caller's first clause whose
\* predicate holds or is absent, with that clause's mapping, and no clause
\* after an unconditional one is applied to any row.
C4_FirstMatchInListOrder ==
  (InMerge /\ pc = "m_exec") =>
    \A cat \in Cats : \A x \in Rows :
      LET cl == ListElems(call.clauses[cat])
          ops == OpsOf(builder, cat)
          k == FirstMatch(ops, x)
      IN  /\ Len(ops) = Len(cl)
          /\ k # 0 <=> \E i \in 1..Len(cl) : CallerHolds(cl[i], x)
          /\ k # 0 => /\ CallerHolds(cl[k], x)
                      /\ \A j \in 1..(k - 1) : ~CallerHolds(cl[j], x)
                      /\ ops[k].predicate = CallerPredicate(cl[k])
                      /\ cat \in {"matched_update", "not_matched_insert",
                                  "not_matched_by_source_update"}
                           => ops[k].updates = extract_updates(cl[k].l)
          /\ \A i \in 1..Len(cl) :
               (\E j \in 1..(i - 1) : ~CallerPredicate(cl[j]).some) => k # i

\* C4 witness: matched-update clauses [x>0, no predicate]; the row with x=5
\* gets the first clause and the row with x=-1 the second.
C4_Witness ==
  /\ InMerge /\ pc = "m_exec"
  /\ call.clauses["matched_update"] = << CondClause, PlainClause >>
  /\ FirstMatch(OpsOf(builder, "matched_update"), 5) = 1
  /\ FirstMatch(OpsOf(builder, "matched_update"), -1) = 2

\* The order of the categories as the specification fixes it.
FixedRank ==
  [cat \in Cats |->
     CASE cat = "matched_update" -> 1
       [] cat = "matched_delete" -> 2
       [] cat = "not_matched_insert" -> 3
       [] cat = "not_matched_by_source_update" -> 4
       [] OTHER -> 5]

\* C5: the builder receives the categories in the fixed order: its clauses
\* are ordered by category, and a clause of a category is in the builder only
\* when every clause of every earlier category is.
C5_FixedCategoryOrder ==
  InMerge =>
    /\ \A i \in 1..Len(builder) : \A j \in i..Len(builder) :
         FixedRank[builder[i].cat] <= FixedRank[builder[j].cat]
    /\ \A i \in 1..Len(builder) : \A cat \in Cats :
         FixedRank[cat] < FixedRank[builder[i].cat]
           => Len(OpsOf(builder, cat)) = Len(ListElems(call.clauses[cat]))

\* C5 witness: a merge about to be submitted with clauses of the second and
\* third category.
C5_Witness ==
  /\ InMerge /\ pc = "m_exec"
  /\ Len(OpsOf(builder, "matched_delete")) = 1
  /\ Len(OpsOf(builder, "not_matched_insert")) = 1

\* C6: a merge called where no table exists fails, creates no table and
\* commits nothing.
C6_MergeNeverCreates ==
  (InMerge /\ call.before = -1)
    => /\ table.version = -1
       /\ io.attempts = 0
       /\ pc = "done" => result.status = "err"

\* C6 witness: a merge on an empty location has failed at load.
C6_Witness ==
  /\ InMerge /\ call.before = -1 /\ pc = "done"
  /\ io.loaded /\ result = Err("table")

\* C7: once the source has returned an error the write or merge reading it
\* has failed and the table is at the version it had when the call started.
C7_StreamErrorNoCommit ==
  ((InMerge \/ InWrite) /\ ErrPulled)
    => (pc = "done" /\ result.status = "err" /\ table.version = call.before)

\* C7 witness: a write whose second item is an error, after the first batch
\* reached the engine.
C7_Witness ==
  /\ InWrite /\ pc = "done" /\ pos = 2 /\ ErrPulled
  /\ Len(engine) = 2 /\ engine[1].kind = "batch"

\* C8: on the write path the core holds at most one source batch, and every
\* item pulled from the source is either that batch or already with the
\* engine.
C8_AtMostOneBatchHeld ==
  InWrite =>
    /\ Len(batches) <= 1
    /\ pos = Len(batches) + Cardinality({k \in 1..Len(engine) : engine[k].kind # "end"})

\* C8 witness: the core holds the second batch of a stream.
C8_Witness ==
  /\ InWrite /\ pc = "w_deliver" /\ pos = 2 /\ Len(batches) = 1

\* C9 (as claimed): when the stream's schema differs from the existing
\* table's schema, every batch the engine receives was cast to the table's
\* schema.
C9_CastToTableSchema ==
  (InWrite /\ wb.snapshot.some /\ call.stream.schema # wb.snapshot.schema)
    => \A k \in 1..Len(engine) :
         engine[k].kind = "batch"
           => (engine[k].cast /\ engine[k].schema = wb.snapshot.schema)

\* C10: with equal schemas the reader handed to the generator is the input
\* itself: what the engine receives is the input's items, in order, uncast.
C10_EqualSchemasPassThrough ==
  (InWrite /\ pc \in {"w_options", "w_exec", "w_pull", "w_deliver", "w_commit", "done"}
     /\ wb.reader.schema = call.stream.schema)
    => /\ \A k \in 1..Len(engine) :
            /\ ~engine[k].cast
            /\ engine[k] = IF k > Len(call.stream.items) THEN EndOfStream
                           ELSE IF call.stream.items[k]
                                THEN Item("batch", k, call.stream.schema, FALSE)
                                ELSE Item("err", k, call.stream.schema, FALSE)
       /\ \A k \in 1..Len(batches) : ~batches[k].cast

\* C10 witness: a whole stream of two batches went through to the engine.
C10_Witness ==
  /\ InWrite /\ wb.reader.schema = call.stream.schema
  /\ Len(engine) = 3 /\ engine[3] = EndOfStream
  /\ engine[1].kind = "batch" /\ engine[2].kind = "batch"

\* ------------------------------------------------- type mapping properties
Mapped == out # NoOut

\* The variants that have no target type.
Unsupported(t) ==
  \/ t.k \in {"Time32", "Time64", "Duration", "Interval", "Union", "Null", "UInt64"}
  \/ t.k = "Decimal256" /\ t.p > 38

\* The types held by a nested type: a list's element, a map's key and value,
\* a struct's fields, the values of a dictionary or of a run-end encoding.
ValueTypes(t) ==
  CASE t.k \in ListKinds -> {t.ch[1].ty}
    [] t.k = "Map" ->
         IF t.ch[1].ty.k = "Struct" /\ Len(t.ch[1].ty.ch) >= 2
         THEN {t.ch[1].ty.ch[1].ty, t.ch[1].ty.ch[2].ty}
         ELSE {}
    [] t.k = "Struct" -> {t.ch[i].ty : i \in 1..Len(t.ch)}
    [] t.k \in {"Dictionary", "RunEndEncoded"} -> {t.ch[2].ty}
    [] OTHER -> {}

RECURSIVE HasUnsupported(_)
HasUnsupported(t) == Unsupported(t) \/ \E u \in ValueTypes(t) : HasUnsupported(u)

RECURSIVE SubTypes(_)
SubTypes(t) == {t} \cup UNION {SubTypes(u) : u \in ValueTypes(t)}

KernelKinds ==
  {"boolean", "byte", "short", "integer", "long", "float", "double", "string", "binary",
   "date", "timestamp", "timestamp_ntz", "decimal", "array", "map", "struct"}
ErrorKinds ==
  {"uint64", "time", "duration", "interval", "decimal_invalid", "decimal_precision",
   "map_structure", "struct", "union", "null"}

\* C11: the type mapping returns, for every source type, either a target
\* type or an error, and a source type that is or holds (as list element, map
\* key or value, struct field, dictionary or run-end-encoded value) a variant
\* without a target type (time, duration, interval, union, null, unsigned
\* 64-bit, 256-bit decimal of precision above 38) always gets the error,
\* which names an offending type found inside the source type; no target
\* type is ever put in its place.
C11_UnsupportedIsError ==
  Mapped =>
    /\ out.ok => out.ty.k \in KernelKinds /\ out.err.kind = ""
    /\ ~out.ok => out.ty = KPrim("") /\ out.err.kind \in ErrorKinds
                  /\ out.err.off \in SubTypes(ty)
    /\ HasUnsupported(ty) => ~out.ok
    /\ out = arrow_type_to_kernel(ty)

C11_Witness ==
  /\ Mapped
  /\ ty.k = "Struct"
  /\ ~Unsupported(ty)
  /\ \E u \in ValueTypes(ty) : u.k = "List" /\ ~Unsupported(u) /\ HasUnsupported(u)
  /\ ~out.ok
  /\ out.err.kind = "uint64"

\* Width in bits of the unsigned source integers and of the signed targets.
UnsignedBits(k) ==
  CASE k = "UInt8" -> 8 [] k = "UInt16" -> 16 [] k = "UInt32" -> 32 [] k = "UInt64" -> 64
SignedBits(k) ==
  CASE k = "byte" -> 8 [] k = "short" -> 16 [] k = "integer" -> 32 [] k = "long" -> 64
    [] OTHER -> 0

DecimalKinds == {"Decimal32", "Decimal64", "Decimal128", "Decimal256"}

\* C13 (as stated): every decimal source type of any width with precision
\* at most 38 is mapped to decimal(p, s) with exactly its precision and
\* scale, whatever the signed 8-bit scale.
C13_DecimalAnyScale ==
  Mapped /\ ty.k \in DecimalKinds /\ ty.p <= 38 =>
    out.ok /\ out.ty = KT("decimal", ty.p, ty.s, << >>)

\* C13 (amended): a decimal source type of any width is mapped to
\* decimal(p, s) with exactly its precision and scale when 1 <= p <= 38 and
\* 0 <= s <= p; every other decimal gets a conversion error naming the
\* source type: the precision-exceeded error for a 256-bit decimal of
\* precision above 38, the invalid-parameters error in all other cases (zero
\* precision, negative scale, scale above precision, precision above 38 in
\* the narrower widths).
C13_DecimalValidRange ==
  Mapped /\ ty.k \in DecimalKinds =>
    IF 1 <= ty.p /\ ty.p <= 38 /\ 0 <= ty.s /\ ty.s <= ty.p
    THEN out = TOk(KT("decimal", ty.p, ty.s, << >>))
    ELSE /\ ~out.ok
         /\ out.err.off = ty
         /\ out.err.kind = IF ty.k = "Decimal256" /\ ty.p > 38
                           THEN "decimal_precision" ELSE "decimal_invalid"

C13_Witness ==
  /\ Mapped
  /\ ty.k = "Decimal256"
  /\ ty.p = 38
  /\ ty.s = 10
  /\ out.ok
  /\ out.ty.p = 38 /\ out.ty.s = 10

\* C14: a map whose entries field is not a struct of exactly two fields (it
\* is not a struct, or it is a struct of 0, 1, 3 or more fields) gets the
\* structural conversion error.
C14_MapExactlyTwoFields ==
  Mapped /\ ty.k = "Map" /\ ~(ty.ch[1].ty.k = "Struct" /\ Len(ty.ch[1].ty.ch) = 2) =>
    ~out.ok /\ out.err.kind = "map_structure"

MaxOf(S) == IF S = {} THEN 0 ELSE CHOOSE m \in S : \A x \in S : x <= m

Nested(k) == k.k \in {"array", "map", "struct"}

\* Nesting depth of a source type (a dictionary and a run-end encoding stand
\* for their values) and of a target type.
RECURSIVE ADepth(_)
ADepth(t) ==
  CASE t.k \in {"Dictionary", "RunEndEncoded"} -> ADepth(t.ch[2].ty)
    [] t.k \in ListKinds \cup {"Map", "Struct"} ->
         1 + MaxOf({ADepth(u) : u \in ValueTypes(t)})
    [] OTHER -> 0

RECURSIVE KDepth(_)
KDepth(k) ==
  IF Nested(k) THEN 1 + MaxOf({KDepth(k.ch[i].ty) : i \in 1..Len(k.ch)}) ELSE 0

\* The target type k has the shape of the source type t.
RECURSIVE SameShape(_, _)
SameShape(t, k) ==
  CASE t.k \in {"Dictionary", "RunEndEncoded"} -> SameShape(t.ch[2].ty, k)
    [] t.k \in ListKinds ->
         /\ k.k = "array"
         /\ k.ch[1].nullable = t.ch[1].nullable
         /\ SameShape(t.ch[1].ty, k.ch[1].ty)
    [] t.k = "Map" ->
         LET e == t.ch[1].ty.ch
         IN  /\ k.k = "map"
             /\ k.ch[2].nullable = e[2].nullable
             /\ SameShape(e[1].ty, k.ch[1].ty)
             /\ SameShape(e[2].ty, k.ch[2].ty)
    [] t.k = "Struct" ->
         /\ k.k = "struct"
         /\ Len(k.ch) = Len(t.ch)
         /\ \A i \in 1..Len(t.ch) :
              /\ k.ch[i].name = t.ch[i].name
              /\ k.ch[i].nullable = t.ch[i].nullable
              /\ SameShape(t.ch[i].ty, k.ch[i].ty)
    [] OTHER -> ~Nested(k)

FieldFails(u, i) == ~arrow_type_to_kernel(u.ch[i].ty).ok

\* C15: a nested source type that is mapped keeps its shape: a struct its
\* field names, their order and their nullability, a list its element
\* nullability, a map its value nullability, and the whole type its nesting
\* depth; and a struct (at any level) with a field that cannot be mapped
\* gets the error of its first such field in field order.
C15_ShapePreserved ==
  Mapped =>
    /\ out.ok => SameShape(ty, out.ty) /\ KDepth(out.ty) = ADepth(ty)
    /\ \A u \in SubTypes(ty) :
         u.k = "Struct" =>
           \A i \in 1..Len(u.ch) :
             FieldFails(u, i) /\ (\A j \in 1..(i - 1) : ~FieldFails(u, j)) =>
               /\ ~arrow_type_to_kernel(u).ok
               /\ arrow_type_to_kernel(u).err = arrow_type_to_kernel(u.ch[i].ty).err

C15_Witness ==
  /\ Mapped
  /\ ty = AStruct(<< AField("a", AList("List", AMap(APrim("Utf8"), APrim("Int32"), TRUE),
                                       TRUE), TRUE) >>)
  /\ out.ok
  /\ out.ty = KStruct(<< KField("a", KArray(KMap(KPrim("string"), KPrim("integer"), TRUE),
                                            TRUE), TRUE) >>)
  /\ KDepth(out.ty) = 3

\* ------------------------------------------------- delta_create properties
InCreate == call.fn = "create"

SchemaFails == \E i \in 1..Len(SchemaFields(call.schema)) :
                 FieldFails(AStruct(SchemaFields(call.schema)), i)

FirstFailing ==
  CHOOSE i \in 1..Len(SchemaFields(call.schema)) :
    /\ FieldFails(AStruct(SchemaFields(call.schema)), i)
    /\ \A j \in 1..(i - 1) : ~FieldFails(AStruct(SchemaFields(call.schema)), j)

\* C16: delta_create submits its request only after every field of the
\* schema has been mapped; with a field that cannot be mapped the call
\* returns the error of the first such field in schema order, no request is
\* ever submitted, and the location holds what it held before the call.
C16_CreateMapsBeforeRequest ==
  InCreate /\ call.schema # "invalid" =>
    /\ io.attempts > 0 =>
         /\ out.ok
         /\ Len(out.ty.ch) = Len(SchemaFields(call.schema))
    /\ SchemaFails =>
         /\ io.attempts = 0
         /\ table.version = call.before
         /\ pc \notin {"c_exec"}
         /\ pc = "done" =>
              /\ result = Err("type")
              /\ out.err = arrow_type_to_kernel(SchemaFields(call.schema)[FirstFailing].ty).err

C16_Witness ==
  /\ InCreate
  /\ pc = "done"
  /\ call.schema = "mixed"
  /\ result = Err("type")
  /\ out.err.kind = "null"
  /\ table.version = -1

\* -------------------------------------------------- delta_write properties
\* The stream of the call has a column whose type has no target type.
UnrepresentableStream ==
  /\ call.stream.valid
  /\ \E i \in 1..Len(SchemaFields(call.stream.schema)) :
       FieldFails(AStruct(SchemaFields(call.stream.schema)), i)

\* C17: a write (with a valid save mode) whose stream has a column type
\* without a target type ends with a type-conversion error and does no I/O:
\* the table is not opened, no batch is pulled, nothing is submitted to the
\* engine and the table keeps its version.
C17_WriteTypeErrorBeforeIO ==
  InWrite /\ call.mode \in SaveModes /\ UnrepresentableStream =>
    /\ ~io.opened
    /\ pos = 0
    /\ io.attempts = 0
    /\ table.version = call.before
    /\ pc = "done" => result = Err("type")

\* C18: a write with save mode "error" to a location that holds a table
\* leaves the table's version as it was and ends with an error, and the
\* builder it submits carries the snapshot of that table.
C18_ErrorModeKeepsTable ==
  InWrite /\ call.mode = "error" /\ call.before >= 0 =>
    /\ table.version = call.before
    /\ pc = "done" => result.status = "err"
    /\ wb # NoWb => wb.snapshot.some /\ wb.snapshot.version = call.before
    /\ io.attempts > 0 => pos = 0 /\ pc = "done"

C18_Witness ==
  /\ InWrite
  /\ call.mode = "error"
  /\ call.before >= 0
  /\ wb.snapshot.some
  /\ io.attempts = 1
  /\ pc = "done"
  /\ result = Err("engine")
  /\ table.version = call.before

\* ------------------------------------------------- merge stage properties
SourceDrained == pos = Len(call.stream.items) \/ ErrPulled
FoldStarted == ci # [c |-> 1, i |-> 1] \/ builder # << >>
FoldDone == ci.c > NumCats
Failed == pc = "done" /\ result.status = "err"

\* A failed merge call has entered no stage after the one that failed.
FailureStopsCall ==
  /\ (Failed /\ ~call.stream.valid) => ~io.opened
  /\ (Failed /\ ~io.loaded) => pos = 0
  /\ (Failed /\ result.kind = "table") => pos = 0 /\ ~FoldStarted
  /\ (Failed /\ result.kind = "stream") => ~FoldStarted
  /\ (Failed /\ result.kind \in {"table", "stream", "clause", "compile"}) =>
       io.attempts = 0 /\ table.version = call.before
  /\ (Failed /\ ~FoldDone) => io.attempts = 0
  /\ Failed => io.attempts <= 1

\* C19 (as stated): in a merge call the source is fully drained before the
\* table is opened, the clauses are compiled after the table is loaded, the
\* merge is executed after the clauses are compiled, and a failed call has
\* entered no later stage.
C19_SourceDrainedBeforeOpen ==
  InMerge =>
    /\ io.opened => SourceDrained
    /\ io.loaded => io.opened
    /\ FoldStarted => io.loaded
    /\ io.attempts > 0 => FoldDone
    /\ FailureStopsCall

\* C19 (amended): in a merge call the table is opened and loaded before the
\* first item is pulled from the source, the clauses are compiled after the
\* source is fully drained without error, the merge is executed after every
\* clause is compiled, and a failed call has entered no later stage.
C19_OpenedBeforeDrain ==
  InMerge =>
    /\ io.opened => call.stream.valid
    /\ io.loaded => io.opened
    /\ pos > 0 => io.loaded /\ snap.some
    /\ FoldStarted => pos = Len(call.stream.items) /\ ~ErrPulled
    /\ io.attempts > 0 => FoldDone
    /\ FailureStopsCall

C19_Witness ==
  /\ InMerge
  /\ pc = "m_drain"
  /\ io.opened /\ io.loaded
  /\ pos = 1
  /\ Len(call.stream.items) = 2
  /\ ~FoldStarted
  /\ io.attempts = 0

\* ---------------------------------------------------- generator properties
\* The items a plan has received or is about to receive.
Received(p) ==
  {pullers[p].got[i] : i \in 1..Len(pullers[p].got)}
  \cup (IF pullers[p].st = "ret" THEN {pullers[p].res} ELSE {})

InReader(p) == pullers[p].st \in {"locked", "read", "ret"}

\* C20: the reader is used by one plan at a time, the plan that holds the
\* mutex; every item the reader's cursor has passed has gone to exactly one
\* plan, once, and is the item the source holds at that position; and a
\* plan is given end-of-stream only when the source is exhausted, which is
\* what every pull then returns.
C20_EachBatchToOnePuller ==
  /\ \A p \in 1..MaxPullers : InReader(p) => lock = p
  /\ \A p \in 1..MaxPullers : pullers[p].st = "read" => pullers[p].item = pos
  /\ \A p \in 1..MaxPullers : \A i, j \in 1..Len(pullers[p].got) :
       (pullers[p].got[i].kind # "end" /\ pullers[p].got[i].id = pullers[p].got[j].id)
         => i = j
  /\ \A p, q \in 1..MaxPullers : \A x \in Received(p), y \in Received(q) :
       (x.kind # "end" /\ y.kind # "end" /\ x.id = y.id) => p = q
  /\ \A k \in 1..pos : \E p \in 1..MaxPullers :
       InputNext(call.stream, k - 1) \in Received(p)
  /\ \A p \in 1..MaxPullers : \A x \in Received(p) :
       /\ x.kind = "end" => pos = Len(call.stream.items)
       /\ x.kind # "end" => x.id \in 1..pos /\ x = InputNext(call.stream, x.id - 1)
  /\ \A p \in 1..MaxPullers :
       (pullers[p].st = "ret" /\ pullers[p].item = Len(call.stream.items))
         => pullers[p].res.kind = "end"

C20_Witness ==
  /\ pos = 2
  /\ Len(call.stream.items) = 2
  /\ pullers[1].st = "end" /\ pullers[2].st = "end"
  /\ \E x \in Received(1) : x.kind = "batch" /\ x.id = 2
  /\ \E x \in Received(2) : x.kind = "batch" /\ x.id = 1
  /\ lock = 0

\* ------------------------------------------------------ commit attempts
InCall == call.fn \in {"merge", "write", "create"}

\* C21: a merge, write or create call submits its operation to the engine at
\* most once: a call that has returned success has made exactly one attempt,
\* a call whose attempt the engine rejected has returned that error without
\* a second attempt, and the table moves by at most one version, and only
\* through an attempt.
C21_AtMostOneAttempt ==
  InCall =>
    /\ io.attempts <= 1
    /\ (pc = "done" /\ result = Ok) => io.attempts = 1
    /\ io.attempts = 0 => table.version = call.before
    /\ table.version \in {call.before, call.before + 1}
    /\ (pc = "done" /\ result.status = "err") => table.version = call.before
    /\ table.version # call.before => pc = "done" /\ result = Ok

C21_Witness ==
  /\ InMerge
  /\ pc = "done"
  /\ FoldDone
  /\ result = Err("engine")
  /\ io.attempts = 1
  /\ table.version = call.before

\* ------------------------------------------------------- write options
PlanBuilt == wb.save_mode # ""
OptionsApplied == pc \in {"w_exec", "w_pull", "w_deliver", "w_commit"} \/ io.attempts > 0

\* C22: in a write the target file size reaches the builder only when it is
\* given and above zero; absent, zero or negative it leaves the builder
\* without a target file size, and it never makes the call fail: a call that
\* fails after the plan is built and before the write is submitted fails on
\* its schema mode.
C22_TargetFileSizeIgnored ==
  InWrite =>
    /\ OptionsApplied =>
         wb.target_file_size =
           IF call.target_file_size.some /\ call.target_file_size.v > 0
           THEN NotNull(call.target_file_size.v) ELSE NullInt
    /\ ~OptionsApplied => wb.target_file_size = NullInt
    /\ (PlanBuilt /\ pc = "done" /\ io.attempts = 0) =>
         /\ result = Err("mode")
         /\ call.schema_mode.some /\ call.schema_mode.v \notin SchemaModes

C22_Witness ==
  /\ InWrite
  /\ call.target_file_size = NotNull(-1)
  /\ pc = "done"
  /\ result = Ok
  /\ wb.target_file_size = NullInt
  /\ table.version = call.before + 1

\* ------------------------------------------------ clause list properties
UpdateCats == {"matched_update", "not_matched_insert", "not_matched_by_source_update"}

\* The entries of the column mapping the caller wrote in clause e.
CallerEntries(e) ==
  LET i == FirstKey(e.l, "updates")
  IN  IF i # 0 /\ is_list(e.l[i].x) THEN e.l[i].x.l ELSE << >>

\* For each column name with an expression, the expression written last.
LastWritten(e) ==
  LET l == CallerEntries(e)
      S == {j \in 1..Len(l) : l[j].x.t = "str"}
  IN  {[col |-> l[j].k, expr |-> l[j].x.s] :
         j \in {j \in S : \A j2 \in S : j2 > j => l[j2].k # l[j].k}}

\* C23: the assignments of a compiled update or insert clause are, for each
\* column name of the caller's mapping, the expression written last for that
\* name; no column has two assignments.
C23_LastWriteWins ==
  (InMerge /\ pc = "m_exec") =>
    \A cat \in UpdateCats :
      LET cl == ListElems(call.clauses[cat])
          ops == OpsOf(builder, cat)
      IN  /\ Len(ops) = Len(cl)
          /\ \A i \in 1..Len(cl) :
               /\ ops[i].updates = LastWritten(cl[i])
               /\ \A a, b \in ops[i].updates : a.col = b.col => a = b

C23_Witness ==
  /\ InMerge /\ pc = "m_exec"
  /\ \E cat \in UpdateCats :
       /\ Len(call.clauses[cat]) = 1
       /\ is_list(call.clauses[cat][1])
       /\ CallerEntries(call.clauses[cat][1]) =
            << Entry("a", RStr("e1")), Entry("a", RStr("e2")) >>
       /\ builder[1].updates = {[col |-> "a", expr |-> "e2"]}

\* ------------------------------------------------ data-model invariants
\* Every decimal inside k has a precision from 1 to 38 and no struct inside
\* k has two fields of one name.
RECURSIVE KernelInvariant(_)
KernelInvariant(k) ==
  /\ k.k = "decimal" => 1 <= k.p /\ k.p <= 38
  /\ k.k = "struct" =>
       \A i, j \in 1..Len(k.ch) : k.ch[i].name = k.ch[j].name => i = j
  /\ \A i \in 1..Len(k.ch) : KernelInvariant(k.ch[i].ty)

\* The source type holds a decimal or a struct that would break them.
BreaksInvariant(t) ==
  \E u \in SubTypes(t) :
    \/ u.k \in DecimalKinds /\ ~(1 <= u.p /\ u.p <= 38)
    \/ u.k = "Struct" /\ \E i, j \in 1..Len(u.ch) : i # j /\ u.ch[i].name = u.ch[j].name

\* C24: a target type that the type mapping returns holds, at every level,
\* only decimals of precision 1 to 38 and only structs whose field names
\* differ; a source type with a decimal of another precision or a struct
\* with a repeated field name gets a conversion error.
C24_TargetInvariants ==
  Mapped =>
    /\ out.ok => KernelInvariant(out.ty)
    /\ BreaksInvariant(ty) => ~out.ok

C24_Witness ==
  /\ Mapped
  /\ ty.k = "List"
  /\ ty.ch[1].ty.k = "Struct"
  /\ Len(ty.ch[1].ty.ch) = 2
  /\ ty.ch[1].ty.ch[1].name = ty.ch[1].ty.ch[2].name
  /\ ~out.ok
  /\ out.err.kind = "struct"

\* ------------------------------------------------- round-trip properties
RECURSIVE HasVariant(_)
HasVariant(k) == k.k = "variant" \/ \E i \in 1..Len(k.ch) : HasVariant(k.ch[i].ty)

RECURSIVE HasMeta(_)
HasMeta(k) == \E i \in 1..Len(k.ch) : k.ch[i].meta \/ HasMeta(k.ch[i].ty)

\* k with the metadata of every field removed.
RECURSIVE WithoutMeta(_)
WithoutMeta(k) ==
  [k EXCEPT !.ch = [i \in 1..Len(k.ch) |->
                      [k.ch[i] EXCEPT !.meta = FALSE, !.ty = WithoutMeta(k.ch[i].ty)]]]

\* C25 (as stated): a target type without a variant, converted to a source
\* type and mapped back, is mapped successfully to the type it was.
C25_RoundTripEqual ==
  (Mapped /\ ~HasVariant(ktype)) => out.ok /\ out.ty = ktype

\* C25 (amended): a target type without a variant, converted to a source
\* type and mapped back, is mapped successfully to the type it was with the
\* metadata of its struct fields removed: decimal precision and scale, array
\* element and map value nullability, struct field names, order and
\* nullability are those of the type, and a type none of whose fields
\* carries metadata comes back equal.
C25_RoundTripUpToMetadata ==
  (Mapped /\ ~HasVariant(ktype)) =>
    /\ ty = kernel_type_to_arrow(ktype)
    /\ out.ok
    /\ out.ty = WithoutMeta(ktype)
    /\ ~HasMeta(ktype) => out.ty = ktype

C25_Witness ==
  /\ Mapped
  /\ ktype = KStruct(<< KFieldMeta("b", KArray(KMap(KPrim("string"),
                                                   KT("decimal", 10, 2, << >>), TRUE), TRUE),
                                   FALSE, FALSE),
                        KFieldMeta("a", KPrim("integer"), FALSE, FALSE) >>)
  /\ out.ok
  /\ out.ty = ktype

\* The positions of the "predicate" entries of clause e.
PredicateAt(e) == {i \in 1..Len(e.l) : e.l[i].k = "predicate"}

\* C26: a compiled clause has the predicate of the first "predicate" entry
\* the caller wrote when that entry is a string, whatever entries of that
\* name follow; when the first entry is no string (or there is none) the
\* clause is compiled without predicate, so it applies to every row of its
\* category and no clause after it in that category is applied to any row.
C26_NonStringPredicateUnconditional ==
  (InMerge /\ pc = "m_exec") =>
    \A cat \in Cats :
      LET cl == ListElems(call.clauses[cat])
          ops == OpsOf(builder, cat)
      IN  /\ Len(ops) = Len(cl)
          /\ \A i \in 1..Len(cl) :
               LET P == PredicateAt(cl[i])
                   first == IF P = {} THEN 0 ELSE CHOOSE m \in P : \A n \in P : m <= n
               IN  IF first # 0 /\ cl[i].l[first].x.t = "str"
                   THEN ops[i].predicate = Some(cl[i].l[first].x.s)
                   ELSE /\ ops[i].predicate = None
                        /\ \A x \in Rows :
                             /\ Applies(ops[i], x)
                             /\ FirstMatch(ops, x) \in 1..i

C26_Witness ==
  /\ InMerge /\ pc = "m_exec"
  /\ call.clauses["matched_delete"] =
       << RList(<< Entry("predicate", RNum), Entry("predicate", RStr("x>0")) >>), CondClause >>
  /\ Len(builder) = 2
  /\ builder[1].predicate = None
  /\ builder[2].predicate = Some("x>0")
  /\ FirstMatch(builder, 5) = 1

\* The elements of a clause list that are lists themselves.
ProperClauses(l) == SelectSeq(l, LAMBDA e : e.t = "list")

\* The string-valued entries of the caller's mapping, by column.
StringEntries(e) ==
  {[col |-> CallerEntries(e)[j].k, expr |-> CallerEntries(e)[j].x.s] :
     j \in {j \in 1..Len(CallerEntries(e)) : CallerEntries(e)[j].x.t = "str"}}

AllElems == UNION {{call.clauses[cat][i] : i \in 1..Len(call.clauses[cat])} : cat \in Cats}

\* C27: elements of a clause list that are no lists and entries of a column
\* mapping whose value is no string are left out without an error: the
\* engine receives, per category, one clause for each list element, in list
\* order, whose assignments are among the string-valued entries of its
\* mapping (possibly none), and a call fails on a clause only when one of
\* its list elements carries update_all or insert_all.
C27_NonListAndNonStringDropped ==
  InMerge =>
    /\ (pc = "m_exec" \/ io.attempts > 0) =>
         \A cat \in Cats :
           LET cl == ProperClauses(call.clauses[cat])
               ops == OpsOf(builder, cat)
           IN  /\ Len(ops) = Len(cl)
               /\ \A i \in 1..Len(cl) :
                    /\ ops[i].predicate = CallerPredicate(cl[i])
                    /\ ops[i].updates = IF cat \in UpdateCats THEN LastWritten(cl[i]) ELSE {}
                    /\ ops[i].updates \subseteq StringEntries(cl[i])
    /\ result.kind = "clause" =>
         \E e \in AllElems : e.t = "list" /\ (HasFlag(e, "update_all") \/ HasFlag(e, "insert_all"))

C27_Witness ==
  /\ InMerge
  /\ pc = "done"
  /\ result = Ok
  /\ io.attempts = 1
  /\ call.clauses["matched_update"] =
       << RNum, RList(<< Entry("updates", RList(<< Entry("a", RNum) >>)) >>) >>
  /\ Len(builder) = 1
  /\ builder[1].updates = {}

\* ------------------------------------------------------ handle properties
InMaintenance == call.fn \in {"compact", "vacuum"}

\* C28: no step of a compact or vacuum call, whether the call succeeds or
\* fails and whatever it commits at the location, changes the handle:
\* version(), get_files() and num_files() on the handle return after the
\* call what they returned before it.
C28_HandleUnchanged ==
  [][InMaintenance =>
       /\ handle' = handle
       /\ version(handle') = version(handle)
       /\ get_files(handle') = get_files(handle)
       /\ num_files(handle') = num_files(handle)]_vars

C28_Witness ==
  /\ call.fn = "compact"
  /\ pc = "done"
  /\ result = Ok
  /\ table.version = call.before + 1
  /\ version(handle) = call.before
  /\ get_files(handle) # table.files
  /\ num_files(handle) = 2

\* ------------------------------------------------ delta_write's options
BadSaveMode == InWrite /\ call.mode \notin SaveModes

BadSchemaMode ==
  InWrite /\ call.schema_mode.some /\ call.schema_mode.v \notin SchemaModes

\* C29: a delta_write whose save mode is not recognised ends with an error
\* without reading the stream and without opening the table, and one whose
\* schema mode is not recognised ends with an error without the write being
\* submitted to the engine; in both no batch is taken from the source and
\* the table version stays what it was.
C29_OptionsRejectedEarly ==
  /\ BadSaveMode =>
       /\ pc \in {"w_mode", "done"}
       /\ pc = "done" => result = Err("mode")
       /\ ~io.opened
       /\ snap = NoSnap
  /\ BadSchemaMode =>
       /\ pc \notin {"w_exec", "w_pull", "w_deliver", "w_commit"}
       /\ pc = "done" => result.status = "err"
       /\ io.attempts = 0
  /\ BadSaveMode \/ BadSchemaMode =>
       /\ pos = 0
       /\ batches = <<>>
       /\ engine = <<>>
       /\ table.version = call.before

C29_Witness ==
  /\ BadSchemaMode
  /\ ~BadSaveMode
  /\ call.stream.items # <<>>
  /\ io.opened
  /\ wb.snapshot.some
  /\ pc = "done"
  /\ result = Err("mode")

C29_SaveModeCase ==
  /\ BadSaveMode
  /\ call.stream.items # <<>>
  /\ pc = "done"
  /\ result = Err("mode")

\* ------------------------------------------------------- the cast reader
InCast == call.fn = "cast" /\ pc = "c_next"

\* C30: the cast reader returns one item per call of next(), in the input's
\* order: the i-th call takes the i-th input item and returns, for a batch,
\* that batch cast to the target schema or the error of its cast, for an
\* input error that error as it is, and past the end of the input the end;
\* the input's cursor has moved once per call, and schema() is the target
\* schema however many items have been taken.
C30_CastReaderOneToOne ==
  InCast =>
    LET items == call.stream.items
        n == Len(engine)
    IN  /\ LazyCastReader_schema(wb.reader) = call.schema
        /\ pos = IF n < Len(items) THEN n ELSE Len(items)
        /\ \A i \in 1..n :
             IF i > Len(items) THEN engine[i] = EndOfStream
             ELSE IF items[i]
             THEN /\ engine[i].id = i
                  /\ engine[i].cast
                  /\ \/ engine[i].kind = "batch" /\ engine[i].schema = call.schema
                     \/ engine[i].kind = "err"
             ELSE engine[i] = Item("err", i, call.stream.schema, FALSE)

C30_Witness ==
  /\ InCast
  /\ call.stream.schema = "int"
  /\ call.schema = "long"
  /\ call.stream.items = << TRUE, FALSE >>
  /\ Len(engine) = 3
  /\ engine[1] = Item("batch", 1, "long", TRUE)
  /\ engine[2].kind = "err"
  /\ engine[3] = EndOfStream

C30_CastErrorCase ==
  /\ InCast
  /\ call.stream.items = << TRUE, TRUE >>
  /\ Len(engine) = 2
  /\ engine[1].kind = "err"
  /\ engine[1].cast
  /\ engine[2].kind = "err"

====
